---- MODULE Spec2Model ----
(***************************************************************************)
(* A model of rack's Wine VST3 bridge (src/wine_host): the host-side       *)
(* session WineVst3Plugin, its request/reply client WineClient, the        *)
(* shared-memory audio plane, and the worker process as the environment.   *)
(*                                                                         *)
(* Units.  The socket streams are modelled in 32-bit words: a response     *)
(* header is 3 words (12 bytes), a payload of payload_size bytes is        *)
(* payload_size \div 4 words.  A mapped region is a function from word     *)
(* index (byte offset \div 4) to the word stored there.  An f64 sample     *)
(* rate is held in half-hertz (88200 is 44100.0 Hz, 96001 is 48000.5 Hz),  *)
(* so that the cast `as u32` is a truncation and not the identity.         *)
(***************************************************************************)
EXTENDS Integers, Sequences, FiniteSets, TLC

\* ------------------------------------------------------------------ bounds
MaxOps == 3          \* calls the owner makes before it drops the session
MaxBlock == 2        \* largest max_block_size the owner asks for
MaxPayloadWords == 1 \* largest reply payload the worker writes, in words
MaxParams == 2       \* largest num_params the worker reports in GetInfo
MaxMints == 11       \* shared-region names drawn in one process
MaxEvents == 2       \* events in one send_midi call

\* ------------------------------------------------------- program constants
RACK_WINE_RESPONSE_MAGIC == 1380865874   \* 0x524E5752
RACK_WINE_SHM_MAGIC == 1381458259        \* 0x52574153
RACK_WINE_PROTOCOL_VERSION == 1
RACK_WINE_MAGIC == 1213093714            \* 0x484E5752
RACK_WINE_PORT_BASE == 47100
RACK_WINE_PORT_MAX == 47199
ShmHeaderSize == 56                      \* size_of::<ShmHeader>(): 14 u32
RespHeaderWords == 3                     \* [u8; 12]
F32Size == 4
\* a word that is not the response magic
BadMagic == RACK_WINE_RESPONSE_MAGIC + 1

None == -1                               \* an Option field holding None

VARIABLES
    \* the owner's position in the session's code
    pc, op, req, resp, args, outbuf, result, last,
    \* WineVst3Plugin's fields
    initialized, shm_ptr, shm_path, shm_size, sample_rate, block_size,
    num_inputs, num_outputs, param_ids, child,
    \* SHM_COUNTER, the files under /tmp, the regions mapped from them
    shm_counter, files, regions,
    \* the TCP stream, each direction, and the socket's handle
    sock_out, sock_in, sock_open,
    \* the worker process, and the region it was told of
    worker, wregion,
    \* history: calls made, request headers written less reply headers
    \* consumed, whether a request failed in transport, the stream's state
    \* when the request in progress began, the teardown steps run so far
    ops, unanswered, faulted, quiet0, teardown,
    \* history: the commands WineVst3Plugin::new issued, with their outcomes
    handshake,
    \* the ports the worker listens on, the ports new() probed in order, the
    \* port the client's stream is connected to
    listening, probed, peer,
    \* what the last call returned beside its result (the index an
    \* InvalidParameter error carries, a count, a decoded header)
    retval,
    \* history: the shared-region names drawn, in the order of the increments
    minted,
    \* the native window of a Vst3Gui and what its owner last did with it
    gui,
    \* the bytes the last send_command wrote
    tx

ctlVars == <<pc, op, req, resp, args, outbuf, result, last>>
sessVars == <<initialized, shm_ptr, shm_path, shm_size, sample_rate,
              block_size, num_inputs, num_outputs, param_ids, child>>
planeVars == <<shm_ptr, shm_path, shm_size, sample_rate, block_size,
               num_inputs, num_outputs>>
osVars == <<shm_counter, files, regions>>
sockVars == <<sock_out, sock_in, sock_open>>
workerVars == <<worker, wregion>>
histVars == <<ops, unanswered, faulted, quiet0, teardown, handshake>>
auxVars == <<listening, probed, peer, retval, minted, gui, tx>>
vars == <<ctlVars, sessVars, osVars, sockVars, workerVars, histVars, auxVars>>

\* ------------------------------------------------------------ small sets
\* (sample_rate, max_block_size) the owner passes to initialize
InitializeArgs == {<<88200, 1>>, <<96001, MaxBlock>>}
\* what the reply's status word may hold: the five codes, and others
StatusValues == {0, 1, 2, 3, 4, 5, 2147483647}
PayloadSizes == {4 * k : k \in 0..MaxPayloadWords}
\* the well-formed replies of the session's specification, (status, size):
\* Ok without payload, Error with one
SessionReplies == {<<0, 0>>, <<1, 4 * MaxPayloadWords>>}
\* what the file system answers in setup_shared_memory: all well, the file
\* cannot be created, or it is created and set_len or mmap fails
SetupOutcomes == {"ok", "open_fail", "map_fail"}
CallerInputs == { <<<<1, 2>>>>, <<<<1>>, <<3, 4>>>> }
CallerOutputs == { <<<<9, 9>>>> }
\* f32 values a caller sets, by their bits: 0.0, 0.5, 1.0, the next f32
\* after 1.0, and the smallest subnormal
ParamValues == {0, 1056964608, 1065353216, 1065353217, 1}
\* the parameter id tables of the sessions the parameter calls are made on
ParamTables == { <<>>, <<100, 101>> }
\* the audio plane's specification: the channel counts GetInfo reported, and
\* output buffers with a short channel, a long one, and one too many
ChannelCounts == {1, 2}
PlaneOutputs == { <<<<9, 9>>>>, <<<<9>>, <<9, 9, 9>>>> }

Min(a, b) == IF a < b THEN a ELSE b

\* --------------------------------------------------------------- protocol
\* a faulty From<u32>: NotInitialized (3) falls through to Error
StatusFrom_ThreeIsError(value) ==
    CASE value = 0 -> "Ok"
      [] value = 1 -> "Error"
      [] value = 2 -> "NotLoaded"
      [] value = 4 -> "InvalidParam"
      [] OTHER -> "Error"

\* impl From<u32> for Status
StatusFrom(value) ==
    CASE value = 0 -> "Ok"
      [] value = 1 -> "Error"
      [] value = 2 -> "NotLoaded"
      [] value = 3 -> "NotInitialized"
      [] value = 4 -> "InvalidParam"
      [] OTHER -> "Error"

\* the match of WineClient::request on header.status()
RequestOutcome(status) ==
    CASE status = "Ok" -> "Ok"
      [] status = "NotLoaded" -> "NotInitialized"
      [] status = "NotInitialized" -> "NotInitialized"
      [] status = "InvalidParam" -> "InvalidParameter"
      [] status = "Error" -> "WorkerError"

\* ResponseHeader::from_bytes, on three words
ResponseHeaderFromWords(w) ==
    [magic |-> w[1], status |-> w[2], payload_size |-> w[3]]

\* `x as u32` of a non-negative in-range f64 held in half-hertz
F64AsU32(x) == IF x < 0 THEN 0 ELSE x \div 2

\* ------------------------------------------------------- the audio plane
\* setup_shared_memory: total_size = header_size + buffer_size
TotalSize(bs, ni, no) == ShmHeaderSize + (ni + no) * bs * F32Size

\* a faulty setup_shared_memory: the output offset is computed from the
\* output channel count
StampedRegion_OffsetFromOutputs(bs, ni, no, sr) ==
    [i \in 0..(TotalSize(bs, ni, no) \div 4 - 1) |->
        CASE i = 0 -> RACK_WINE_SHM_MAGIC
          [] i = 1 -> RACK_WINE_PROTOCOL_VERSION
          [] i = 2 -> ni
          [] i = 3 -> no
          [] i = 4 -> bs
          [] i = 5 -> F64AsU32(sr)
          [] i = 6 -> 0
          [] i = 7 -> 0
          [] i = 8 -> ShmHeaderSize
          [] i = 9 -> ShmHeaderSize + no * bs * F32Size
          [] OTHER -> 0]

\* setup_shared_memory: the words of a fresh mapping (set_len zero-fills the
\* file) after the header has been initialised
StampedRegion(bs, ni, no, sr) ==
    [i \in 0..(TotalSize(bs, ni, no) \div 4 - 1) |->
        CASE i = 0 -> RACK_WINE_SHM_MAGIC
          [] i = 1 -> RACK_WINE_PROTOCOL_VERSION
          [] i = 2 -> ni
          [] i = 3 -> no
          [] i = 4 -> bs
          [] i = 5 -> F64AsU32(sr)
          [] i = 6 -> 0
          [] i = 7 -> 0
          [] i = 8 -> ShmHeaderSize
          [] i = 9 -> ShmHeaderSize + ni * bs * F32Size
          [] OTHER -> 0]

\* the ShmHeader a mapping starts with, as process() reads it
ShmHeaderOf(mem) ==
    [magic |-> mem[0], version |-> mem[1], num_inputs |-> mem[2],
     num_outputs |-> mem[3], block_size |-> mem[4], sample_rate |-> mem[5],
     host_ready |-> mem[6], client_ready |-> mem[7],
     input_offset |-> mem[8], output_offset |-> mem[9]]

\* a faulty input loop: the destination is computed from output_offset
CopyInputs_AtOutputOffset(mem, inputs, num_frames, ni) ==
    LET h == ShmHeaderOf(mem)
        base(ch) == (h.output_offset + ch * h.block_size * F32Size) \div 4
        len(ch) == Min(num_frames, Len(inputs[ch + 1]))
        hit(i) == {ch \in 0..(Len(inputs) - 1) :
                      ch < ni /\ base(ch) <= i /\ i < base(ch) + len(ch)}
    IN  [i \in DOMAIN mem |->
            IF hit(i) = {} THEN mem[i]
            ELSE LET ch == CHOOSE c \in hit(i) : \A d \in hit(i) : d <= c
                 IN  inputs[ch + 1][i - base(ch) + 1]]

\* a faulty input loop: it does not test `ch < self.num_inputs`
CopyInputs_EveryChannel(mem, inputs, num_frames, ni) ==
    LET h == ShmHeaderOf(mem)
        base(ch) == (h.input_offset + ch * h.block_size * F32Size) \div 4
        len(ch) == Min(num_frames, Len(inputs[ch + 1]))
        hit(i) == {ch \in 0..(Len(inputs) - 1) :
                      base(ch) <= i /\ i < base(ch) + len(ch)}
    IN  [i \in DOMAIN mem |->
            IF hit(i) = {} THEN mem[i]
            ELSE LET ch == CHOOSE c \in hit(i) : \A d \in hit(i) : d <= c
                 IN  inputs[ch + 1][i - base(ch) + 1]]

\* process(): the region after the input loop
CopyInputs(mem, inputs, num_frames, ni) ==
    LET h == ShmHeaderOf(mem)
        base(ch) == (h.input_offset + ch * h.block_size * F32Size) \div 4
        len(ch) == Min(num_frames, Len(inputs[ch + 1]))
        hit(i) == {ch \in 0..(Len(inputs) - 1) :
                      ch < ni /\ base(ch) <= i /\ i < base(ch) + len(ch)}
    IN  [i \in DOMAIN mem |->
            IF hit(i) = {} THEN mem[i]
            ELSE LET ch == CHOOSE c \in hit(i) : \A d \in hit(i) : d <= c
                 IN  inputs[ch + 1][i - base(ch) + 1]]

\* a faulty output loop: the samples past copy_len are cleared
CopyOutputs_ClearsTail(mem, outputs, num_frames, no) ==
    LET h == ShmHeaderOf(mem)
        base(ch) == (h.output_offset + ch * h.block_size * F32Size) \div 4
    IN  [c \in 1..Len(outputs) |->
            IF c - 1 < no
            THEN [j \in 1..Len(outputs[c]) |->
                    IF j <= Min(num_frames, Len(outputs[c]))
                    THEN mem[base(c - 1) + j - 1]
                    ELSE 0]
            ELSE outputs[c]]

\* process(): the caller's output buffers after the output loop
CopyOutputs(mem, outputs, num_frames, no) ==
    LET h == ShmHeaderOf(mem)
        base(ch) == (h.output_offset + ch * h.block_size * F32Size) \div 4
    IN  [c \in 1..Len(outputs) |->
            IF c - 1 < no
            THEN [j \in 1..Len(outputs[c]) |->
                    IF j <= Min(num_frames, Len(outputs[c]))
                    THEN mem[base(c - 1) + j - 1]
                    ELSE outputs[c][j]]
            ELSE outputs[c]]

\* --------------------------------------------------------------- requests
NoRequest == [cmd |-> "None", payload |-> <<>>]
NoResponse == [magic |-> 0, status |-> 0, payload_size |-> 0]
NoArgs == [inputs |-> <<>>, num_frames |-> 0]
\* no Vst3Gui has been created
NoGui == [state |-> "none"]
\* what the last request() returned: the status word and payload size of the
\* reply it parsed, the outcome, the payload handed to the caller, and the
\* words recv_response took off the stream
NoLast == [status |-> 0, payload_size |-> 0, outcome |-> "none",
           payload |-> <<>>, read |-> 0]

\* CmdInitAudio::new: the identifier names the backing file of region k
CmdInitAudio(sr, bs, ni, no, k) ==
    [cmd |-> "InitAudio", payload |-> <<F64AsU32(sr), bs, ni, no, k>>]
CmdProcessAudio(n) == [cmd |-> "ProcessAudio", payload |-> <<n>>]
\* u32::to_le_bytes, u32::from_le_bytes
U32ToLeBytes(x) ==
    <<x % 256, (x \div 256) % 256, (x \div 65536) % 256,
      (x \div 16777216) % 256>>
U32FromLeBytes(b) ==
    b[1] + 256 * b[2] + 65536 * b[3] + 16777216 * b[4]

\* how far a subnormal f32 fraction is shifted left to reach bit 23
RECURSIVE Normalise(_, _)
Normalise(frac, s) ==
    IF frac >= 8388608 THEN [frac |-> frac - 8388608, shift |-> s]
    ELSE Normalise(2 * frac, s + 1)

\* `value as f64` of a non-negative f32 given by its bits: the biased
\* exponent of the f64 and the upper 23 bits of its fraction (the lower 29
\* are zero)
F32AsF64(bits) ==
    LET e == bits \div 8388608
        m == bits % 8388608
    IN  IF e = 255 THEN [exp |-> 2047, frac |-> m]
        ELSE IF e > 0 THEN [exp |-> e + 896, frac |-> m]
        ELSE IF m = 0 THEN [exp |-> 0, frac |-> 0]
        ELSE LET n == Normalise(m, 0)
             IN  [exp |-> 897 - n.shift, frac |-> n.frac]

\* f64::to_le_bytes of a non-negative f64 whose fraction's lower 29 bits
\* are zero
F64ToLeBytes(v) ==
    <<0, 0, 0, (v.frac % 8) * 32, (v.frac \div 8) % 256,
      (v.frac \div 2048) % 256,
      ((v.frac \div 524288) % 16) + ((v.exp % 16) * 16), v.exp \div 16>>

\* a faulty CmdParam::to_bytes: the value is written before the id
CmdParamToBytes_ValueFirst(id, value) ==
    F64ToLeBytes(value) \o U32ToLeBytes(id)

\* CmdParam::new(param_id, value).to_bytes()
CmdParamToBytes(id, value) ==
    U32ToLeBytes(id) \o F64ToLeBytes(value)

\* WineClient::set_param, get_param: the request
CmdSetParam(id, value) ==
    [cmd |-> "SetParam", payload |-> CmdParamToBytes(id, value)]
CmdShutdown == [cmd |-> "Shutdown", payload |-> <<>>]

\* nothing is under way on the stream: no request unread, no reply unread,
\* the worker not part-way through a reply
Quiescent ==
    /\ sock_out = <<>>
    /\ sock_in = <<>>
    /\ worker # "hung"

\* a ProcessAudio request is written and the worker has not answered it
PAInFlight == \E i \in 1..Len(sock_out) : sock_out[i].cmd = "ProcessAudio"

\* a faulty initialize(): the flag is set whatever init_audio returned
Finish_ArmsOnAnyOutcome(out) ==
    /\ req' = NoRequest
    /\ resp' = NoResponse
    /\ CASE op = "initialize" ->
              /\ pc' = "idle"
              /\ result' = out
              /\ initialized' = TRUE
              /\ UNCHANGED args
         [] op = "process" ->
              /\ pc' = IF out = "Ok" THEN "copy_out" ELSE "idle"
              /\ result' = IF out = "Ok" THEN result ELSE out
              /\ args' = IF out = "Ok" THEN args ELSE NoArgs
              /\ UNCHANGED initialized
         [] op = "set_parameter" ->
              /\ pc' = "idle"
              /\ result' = out
              /\ args' = NoArgs
              /\ UNCHANGED initialized
         [] op = "drop" ->
              /\ pc' = "drop_cleanup"
              /\ UNCHANGED <<result, initialized, args>>

\* a faulty drop(): it returns as soon as the Shutdown exchange fails
Finish_DropReturnsOnError(out) ==
    /\ req' = NoRequest
    /\ resp' = NoResponse
    /\ CASE op = "initialize" ->
              /\ pc' = "idle"
              /\ result' = out
              /\ initialized' = IF out = "Ok" THEN TRUE ELSE initialized
              /\ UNCHANGED args
         [] op = "process" ->
              /\ pc' = IF out = "Ok" THEN "copy_out" ELSE "idle"
              /\ result' = IF out = "Ok" THEN result ELSE out
              /\ args' = IF out = "Ok" THEN args ELSE NoArgs
              /\ UNCHANGED initialized
         [] op = "set_parameter" ->
              /\ pc' = "idle"
              /\ result' = out
              /\ args' = NoArgs
              /\ UNCHANGED initialized
         [] op = "drop" ->
              /\ pc' = IF out = "Ok" THEN "drop_cleanup" ELSE "dropped"
              /\ UNCHANGED <<result, initialized, args>>

\* a faulty process(): a failed exchange disarms the session
Finish_DisarmsOnError(out) ==
    /\ req' = NoRequest
    /\ resp' = NoResponse
    /\ CASE op = "initialize" ->
              /\ pc' = "idle"
              /\ result' = out
              /\ initialized' = IF out = "Ok" THEN TRUE ELSE initialized
              /\ UNCHANGED args
         [] op = "process" ->
              /\ pc' = IF out = "Ok" THEN "copy_out" ELSE "idle"
              /\ result' = IF out = "Ok" THEN result ELSE out
              /\ args' = IF out = "Ok" THEN args ELSE NoArgs
              /\ initialized' = (out = "Ok")
         [] op = "set_parameter" ->
              /\ pc' = "idle"
              /\ result' = out
              /\ args' = NoArgs
              /\ UNCHANGED initialized
         [] op = "drop" ->
              /\ pc' = "drop_cleanup"
              /\ UNCHANGED <<result, initialized, args>>

\* what each caller of request() does with its outcome: initialize sets the
\* flag on Ok, process goes on to the output loop on Ok, set_parameter
\* returns it, drop ignores it (`let _ =`)
Finish(out) ==
    /\ req' = NoRequest
    /\ resp' = NoResponse
    /\ CASE op = "initialize" ->
              /\ pc' = "idle"
              /\ result' = out
              /\ initialized' = IF out = "Ok" THEN TRUE ELSE initialized
              /\ UNCHANGED args
         [] op = "process" ->
              /\ pc' = IF out = "Ok" THEN "copy_out" ELSE "idle"
              /\ result' = IF out = "Ok" THEN result ELSE out
              /\ args' = IF out = "Ok" THEN args ELSE NoArgs
              /\ UNCHANGED initialized
         [] op = "set_parameter" ->
              /\ pc' = "idle"
              /\ result' = out
              /\ args' = NoArgs
              /\ UNCHANGED initialized
         [] op = "drop" ->
              /\ pc' = "drop_cleanup"
              /\ UNCHANGED <<result, initialized, args>>

\* request() returns Error::Other for a failed write or read or a wrong
\* magic, having taken `read` words off the stream
TransportFault(read) ==
    /\ Finish("Transport")
    /\ faulted' = TRUE
    /\ last' = [status |-> 0, payload_size |-> 0, outcome |-> "Transport",
                payload |-> <<>>, read |-> read]

\* send_command: the header and the payload are written, or the write fails
\* (the peer is gone)
SendCommand ==
    /\ pc = "send"
    /\ \/ /\ sock_out' = Append(sock_out, req)
          /\ unanswered' = unanswered + 1
          /\ quiet0' = Quiescent
          /\ pc' = "recv_hdr"
          /\ UNCHANGED <<req, resp, args, result, initialized, faulted, last>>
       \/ /\ worker = "exited"
          /\ TransportFault(0)
          /\ UNCHANGED <<sock_out, unanswered, quiet0>>
    /\ UNCHANGED <<op, outbuf, planeVars, param_ids, child, osVars, sock_in,
                   sock_open, workerVars, ops, teardown, handshake>>
    /\ UNCHANGED auxVars

\* request: the status of a complete reply decides the outcome
Complete(status, size, payload, read) ==
    LET out == RequestOutcome(StatusFrom(status))
    IN  /\ Finish(out)
        /\ last' = [status |-> status, payload_size |-> size, outcome |-> out,
                    payload |-> IF out = "Ok" THEN payload ELSE <<>>,
                    read |-> read]

\* a faulty recv_response: the payload of a reply whose status is not Ok is
\* left on the stream
PayloadFollows_OkOnly(h) == h.payload_size > 0 /\ h.status = 0

\* recv_response: `if header.payload_size > 0`, the payload is read
PayloadFollows(h) == h.payload_size > 0

\* recv_response, first half: read_exact of the 12-byte header, then the
\* magic check; a reply without payload ends the exchange here
RecvHeader ==
    /\ pc = "recv_hdr"
    /\ \/ /\ Len(sock_in) >= RespHeaderWords
          /\ LET h == ResponseHeaderFromWords(SubSeq(sock_in, 1, RespHeaderWords))
             IN  /\ sock_in' = SubSeq(sock_in, RespHeaderWords + 1, Len(sock_in))
                 /\ unanswered' = unanswered - 1
                 /\ IF h.magic # RACK_WINE_RESPONSE_MAGIC
                    THEN TransportFault(RespHeaderWords)
                    ELSE IF PayloadFollows(h)
                    THEN /\ pc' = "recv_payload"
                         /\ resp' = h
                         /\ UNCHANGED <<req, args, result, initialized,
                                        faulted, last>>
                    ELSE /\ Complete(h.status, h.payload_size, <<>>,
                                     RespHeaderWords)
                         /\ UNCHANGED faulted
       \/ \* the read times out, or meets the end of the stream: what had
          \* arrived is consumed
          /\ Len(sock_in) < RespHeaderWords
          /\ sock_in' = <<>>
          /\ TransportFault(Len(sock_in))
          /\ UNCHANGED unanswered
    /\ UNCHANGED <<op, outbuf, planeVars, param_ids, child, osVars, sock_out,
                   sock_open, workerVars, ops, quiet0, teardown, handshake>>
    /\ UNCHANGED auxVars

\* recv_response, second half: read_exact of payload_size bytes
RecvPayload ==
    /\ pc = "recv_payload"
    /\ LET need == resp.payload_size \div 4
       IN  \/ /\ Len(sock_in) >= need
              /\ sock_in' = SubSeq(sock_in, need + 1, Len(sock_in))
              /\ Complete(resp.status, resp.payload_size,
                          SubSeq(sock_in, 1, need), RespHeaderWords + need)
              /\ UNCHANGED faulted
           \/ /\ Len(sock_in) < need
              /\ sock_in' = <<>>
              /\ TransportFault(RespHeaderWords + Len(sock_in))
    /\ UNCHANGED <<op, outbuf, planeVars, param_ids, child, osVars, sock_out,
                   sock_open, workerVars, ops, unanswered, quiet0, teardown, handshake>>
    /\ UNCHANGED auxVars

\* ---------------------------------------------------------- the session
\* setup_shared_memory(block_size, num_inputs, num_outputs), with what the
\* file system and mmap answer: the counter is drawn first; a file that was
\* created stays when a later step fails; the fields are set only at the end
SetupSharedMemory(bs, ni, no, sr, os) ==
    LET k == shm_counter
    IN  /\ shm_counter' = k + 1
        /\ files' = IF os = "open_fail" THEN files ELSE files \cup {k}
        /\ IF os = "ok"
           THEN /\ regions' = regions @@
                       (k :> [mapped |-> TRUE, mem |-> StampedRegion(bs, ni, no, sr)])
                /\ shm_ptr' = k
                /\ shm_size' = TotalSize(bs, ni, no)
                /\ shm_path' = k
           ELSE UNCHANGED <<regions, shm_ptr, shm_size, shm_path>>

\* initialize(sample_rate, max_block_size) up to the InitAudio request
Initialize(sr, bs, os) ==
    /\ pc = "idle"
    /\ ops < MaxOps
    /\ ops' = ops + 1
    /\ op' = "initialize"
    /\ sample_rate' = sr
    /\ block_size' = bs
    /\ SetupSharedMemory(bs, num_inputs, num_outputs, sr, os)
    /\ IF os = "ok"
       THEN /\ req' = CmdInitAudio(sr, bs, num_inputs, num_outputs, shm_counter)
            /\ pc' = "send"
            /\ UNCHANGED result
       ELSE /\ result' = "SetupError"
            /\ UNCHANGED <<req, pc>>
    /\ UNCHANGED <<resp, args, outbuf, last, initialized, num_inputs,
                   num_outputs, param_ids, child, sockVars, workerVars,
                   unanswered, faulted, quiet0, teardown, handshake>>
    /\ UNCHANGED auxVars

\* a faulty process(): it looks at the mapping alone
ProcessMayRun_PointerOnly == shm_ptr # None

\* process(): the two checks that let it run
ProcessMayRun == initialized /\ shm_ptr # None

\* process(inputs, outputs, num_frames) up to the ProcessAudio request; the
\* caller passes the output buffers it owns
Process(inputs, n) ==
    /\ pc = "idle"
    /\ ops < MaxOps
    /\ ops' = ops + 1
    /\ op' = "process"
    /\ IF ~ProcessMayRun
       THEN /\ result' = "NotInitialized"
            /\ UNCHANGED <<pc, req, args, regions>>
       ELSE /\ n <= ShmHeaderOf(regions[shm_ptr].mem).block_size
            /\ regions' = [regions EXCEPT ![shm_ptr].mem =
                              CopyInputs(@, inputs, n, num_inputs)]
            /\ args' = [inputs |-> inputs, num_frames |-> n]
            /\ req' = CmdProcessAudio(n)
            /\ pc' = "send"
            /\ UNCHANGED result
    /\ UNCHANGED <<resp, outbuf, last, sessVars, shm_counter, files, sockVars,
                   workerVars, unanswered, faulted, quiet0, teardown, handshake>>
    /\ UNCHANGED auxVars

\* process() after the Ok reply: the output loop
ProcessCopyOut ==
    /\ pc = "copy_out"
    /\ outbuf' = CopyOutputs(regions[shm_ptr].mem, outbuf, args.num_frames,
                             num_outputs)
    /\ result' = "Ok"
    /\ args' = NoArgs
    /\ pc' = "idle"
    /\ UNCHANGED <<op, req, resp, last, sessVars, osVars, sockVars,
                   workerVars, histVars>>
    /\ UNCHANGED auxVars

\* set_parameter(index, value)
SetParameter(index, value) ==
    /\ pc = "idle"
    /\ ops < MaxOps
    /\ ops' = ops + 1
    /\ op' = "set_parameter"
    /\ IF index >= Len(param_ids)
       THEN /\ result' = "InvalidParameter"
            /\ retval' = index
            /\ UNCHANGED <<pc, req, args>>
       ELSE /\ req' = CmdSetParam(param_ids[index + 1], F32AsF64(value))
            /\ args' = [index |-> index, value |-> value]
            /\ pc' = "send"
            /\ UNCHANGED <<result, retval>>
    /\ UNCHANGED <<resp, outbuf, last, sessVars, osVars, sockVars,
                   workerVars, unanswered, faulted, quiet0, teardown, handshake>>
    /\ UNCHANGED <<listening, probed, peer, minted, gui, tx>>

\* is_initialized()
is_initialized == initialized

\* get_parameter(index): the index is checked, and then the call fails
\* ("get_parameter requires mutable reference") without a request
GetParameter(index) ==
    /\ pc = "idle"
    /\ ops < MaxOps
    /\ ops' = ops + 1
    /\ op' = "get_parameter"
    /\ IF index >= Len(param_ids)
       THEN /\ result' = "InvalidParameter"
            /\ retval' = index
       ELSE /\ result' = "Other"
            /\ retval' = None
    /\ UNCHANGED <<pc, req, resp, args, outbuf, last, sessVars, osVars,
                   sockVars, workerVars, unanswered, faulted, quiet0,
                   teardown, handshake, listening, probed, peer, minted, gui, tx>>

\* a call that touches neither the session nor the socket returns
Returns(name, res, val) ==
    /\ pc = "idle"
    /\ ops < MaxOps
    /\ ops' = ops + 1
    /\ op' = name
    /\ result' = res
    /\ retval' = val
    /\ UNCHANGED <<pc, req, resp, args, outbuf, last, sessVars, osVars,
                   sockVars, workerVars, unanswered, faulted, quiet0,
                   teardown, handshake, listening, probed, peer, minted, gui, tx>>

\* preset_count(): Ok(0)
preset_count == Returns("preset_count", "Ok", 0)
\* preset_info(_index): Err("Presets not implemented")
preset_info(index) == Returns("preset_info", "Other", None)
\* load_preset(_preset_number): Err("Presets not implemented")
load_preset(preset_number) == Returns("load_preset", "Other", None)
\* get_state(): Err("State serialization not implemented")
get_state == Returns("get_state", "Other", None)
\* set_state(_data): Err("State serialization not implemented")
set_state(data) == Returns("set_state", "Other", None)

\* ------------------------------------------------------------- teardown
\* Drop::drop: `let _ = self.client.shutdown()`
Drop ==
    /\ pc = "idle"
    /\ op' = "drop"
    /\ req' = CmdShutdown
    /\ pc' = "send"
    /\ teardown' = Append(teardown, "shutdown")
    /\ UNCHANGED <<resp, args, outbuf, result, last, sessVars, osVars,
                   sockVars, workerVars, ops, unanswered, faulted, quiet0, handshake>>
    /\ UNCHANGED auxVars

\* Drop::drop after the Shutdown exchange: munmap when shm_ptr is Some,
\* remove_file when shm_path is Some; then the fields are dropped in the
\* order they are declared: _host_process (std::process::Child has no Drop:
\* the process is neither killed nor waited for), then client (the TcpStream
\* is closed)
DropCleanup ==
    /\ pc = "drop_cleanup"
    /\ regions' = IF shm_ptr # None
                  THEN [regions EXCEPT ![shm_ptr].mapped = FALSE]
                  ELSE regions
    /\ files' = IF shm_path # None THEN files \ {shm_path} ELSE files
    /\ child' = "released"
    /\ sock_open' = FALSE
    /\ teardown' = teardown
                     \o (IF shm_ptr # None THEN <<"unmap">> ELSE <<>>)
                     \o (IF shm_path # None THEN <<"unlink">> ELSE <<>>)
                     \o <<"release_child", "close_socket">>
    /\ pc' = "dropped"
    /\ UNCHANGED <<op, req, resp, args, outbuf, result, last, initialized,
                   planeVars, param_ids, shm_counter, sock_out, sock_in,
                   workerVars, ops, unanswered, faulted, quiet0, handshake>>
    /\ UNCHANGED auxVars

\* ------------------------------------------------------------ the worker
\* what the worker leaves in the region it was told of, when it answers
\* ProcessAudio with Ok: the first num_samples of each output channel
WorkerOutputs(mem, n) ==
    LET h == ShmHeaderOf(mem)
        base(ch) == (h.output_offset + ch * h.block_size * F32Size) \div 4
    IN  [i \in DOMAIN mem |->
            IF \E ch \in 0..(h.num_outputs - 1) :
                   base(ch) <= i /\ i < base(ch) + Min(n, h.block_size)
            THEN 5 ELSE mem[i]]

\* the worker takes the next request off the stream and answers it with a
\* well-formed reply: Ok to InitAudio makes the named region its own, Ok to
\* ProcessAudio follows its writing the outputs, Ok to Shutdown ends it
WorkerReply(status, size) ==
    /\ worker = "idle"
    /\ sock_out # <<>>
    /\ LET r == Head(sock_out)
       IN  /\ sock_out' = Tail(sock_out)
           /\ sock_in' = sock_in \o <<RACK_WINE_RESPONSE_MAGIC, status, size>>
                                 \o [i \in 1..(size \div 4) |-> 7]
           /\ worker' = IF r.cmd = "Shutdown" /\ status = 0
                        THEN "exited" ELSE "idle"
           /\ IF r.cmd = "InitAudio" /\ status = 0
              THEN r.payload[5] \in files /\ wregion' = r.payload[5]
              ELSE UNCHANGED wregion
           /\ IF r.cmd = "ProcessAudio" /\ status = 0 /\ wregion # None
              THEN regions' = [regions EXCEPT ![wregion].mem =
                                  WorkerOutputs(@, r.payload[1])]
              ELSE UNCHANGED regions
    /\ UNCHANGED <<ctlVars, sessVars, shm_counter, files, sock_open, histVars>>
    /\ UNCHANGED auxVars

\* the worker answers with a header that does not start with the magic
WorkerReplyBadMagic ==
    /\ worker = "idle"
    /\ sock_out # <<>>
    /\ sock_out' = Tail(sock_out)
    /\ sock_in' = sock_in \o <<BadMagic, 0, 0>>
    /\ UNCHANGED <<ctlVars, sessVars, osVars, sock_open, workerVars, histVars>>
    /\ UNCHANGED auxVars

\* the worker writes a header that announces a payload, and stalls
WorkerReplyShort ==
    /\ worker = "idle"
    /\ sock_out # <<>>
    /\ sock_out' = Tail(sock_out)
    /\ sock_in' = sock_in \o <<RACK_WINE_RESPONSE_MAGIC, 0, 4>>
    /\ worker' = "hung"
    /\ UNCHANGED <<ctlVars, sessVars, osVars, sock_open, wregion, histVars>>
    /\ UNCHANGED auxVars

\* the worker process ends over a request, without a reply
WorkerExit ==
    /\ worker = "idle"
    /\ sock_out # <<>>
    /\ sock_out' = Tail(sock_out)
    /\ worker' = "exited"
    /\ UNCHANGED <<ctlVars, sessVars, osVars, sock_in, sock_open, wregion,
                   histVars>>
    /\ UNCHANGED auxVars

\* ------------------------------------------------------ the specification
\* WineVst3Plugin::new returned Ok: connected, unarmed
Init ==
    /\ pc = "idle" /\ op = "none" /\ req = NoRequest /\ resp = NoResponse
    /\ args = NoArgs /\ outbuf \in CallerOutputs /\ result = "none"
    /\ last = NoLast
    /\ initialized = FALSE
    /\ shm_ptr = None /\ shm_path = None /\ shm_size = 0
    /\ sample_rate = 0 /\ block_size = 0
    /\ num_inputs = 1 /\ num_outputs = 1
    /\ param_ids = <<100>>
    /\ child = "held"
    /\ shm_counter = 0 /\ files = {} /\ regions = <<>>
    /\ sock_out = <<>> /\ sock_in = <<>> /\ sock_open = TRUE
    /\ worker = "idle" /\ wregion = None
    /\ ops = 0 /\ unanswered = 0 /\ faulted = FALSE
    /\ quiet0 = TRUE /\ teardown = <<>>
    /\ handshake = <<>>
    /\ listening = {RACK_WINE_PORT_BASE} /\ probed = <<RACK_WINE_PORT_BASE>>
    /\ peer = RACK_WINE_PORT_BASE
    /\ retval = None /\ minted = <<>> /\ gui = NoGui /\ tx = <<>>

\* the owner's calls and the session's steps
HostNext ==
    \/ \E a \in InitializeArgs, os \in SetupOutcomes :
          Initialize(a[1], a[2], os)
    \/ \E i \in CallerInputs, n \in 1..MaxBlock : Process(i, n)
    \/ ProcessCopyOut
    \/ \E index \in 0..1 : SetParameter(index, 1)
    \/ SendCommand
    \/ RecvHeader
    \/ RecvPayload
    \/ Drop
    \/ DropCleanup

Next ==
    \/ HostNext
    \/ \E r \in SessionReplies : WorkerReply(r[1], r[2])
    \/ WorkerReplyBadMagic
    \/ WorkerReplyShort
    \/ WorkerExit

Spec == Init /\ [][Next]_vars
\* the wire alone: set_parameter exchanges against a worker that answers
\* with every status and payload size, or faultily
NextWire ==
    \/ \E index \in 0..1 : SetParameter(index, 1)
    \/ SendCommand
    \/ RecvHeader
    \/ RecvPayload
    \/ \E st \in StatusValues, size \in PayloadSizes : WorkerReply(st, size)
    \/ WorkerReplyBadMagic
    \/ WorkerReplyShort
    \/ WorkerExit

SpecWire == Init /\ [][NextWire]_vars

\* the audio plane: sessions of every channel count, arming (again, and
\* failing) and process() against a worker that answers well-formed replies,
\* late or in time
InitPlane ==
    /\ pc = "idle" /\ op = "none" /\ req = NoRequest /\ resp = NoResponse
    /\ args = NoArgs /\ outbuf \in PlaneOutputs /\ result = "none"
    /\ last = NoLast
    /\ initialized = FALSE
    /\ shm_ptr = None /\ shm_path = None /\ shm_size = 0
    /\ sample_rate = 0 /\ block_size = 0
    /\ num_inputs \in ChannelCounts /\ num_outputs \in ChannelCounts
    /\ param_ids = <<100>>
    /\ child = "held"
    /\ shm_counter = 0 /\ files = {} /\ regions = <<>>
    /\ sock_out = <<>> /\ sock_in = <<>> /\ sock_open = TRUE
    /\ worker = "idle" /\ wregion = None
    /\ ops = 0 /\ unanswered = 0 /\ faulted = FALSE
    /\ quiet0 = TRUE /\ teardown = <<>>
    /\ handshake = <<>>
    /\ listening = {RACK_WINE_PORT_BASE} /\ probed = <<RACK_WINE_PORT_BASE>>
    /\ peer = RACK_WINE_PORT_BASE
    /\ retval = None /\ minted = <<>> /\ gui = NoGui /\ tx = <<>>

NextPlane ==
    \/ \E a \in InitializeArgs, os \in SetupOutcomes :
          Initialize(a[1], a[2], os)
    \/ \E i \in CallerInputs, n \in 1..MaxBlock : Process(i, n)
    \/ ProcessCopyOut
    \/ SendCommand
    \/ RecvHeader
    \/ RecvPayload
    \/ \E r \in SessionReplies : WorkerReply(r[1], r[2])

SpecPlane == InitPlane /\ [][NextPlane]_vars

\* ------------------------------------------------------- construction
\* WineVst3Plugin::new, one step per fallible call.  A call of the client
\* (ping, load_plugin, get_info, get_param_info) is one step whose outcome is
\* any of those request() returns; get_info and get_param_info also return
\* Error::Other for a payload they cannot parse, which is taken with
\* "Transport".
RequestResults == {"Ok", "NotInitialized", "InvalidParameter", "WorkerError",
                   "Transport"}

\* what new() never touches
newIdle == <<req, resp, outbuf, last, initialized, shm_ptr, shm_path,
             shm_size, sample_rate, block_size, osVars, sock_out, sock_in,
             wregion, ops, unanswered, faulted, quiet0>>

\* the locals of new() after get_info: the loop index and host_info
NewLocals(i, np, ni, no) ==
    [i |-> i, num_params |-> np, num_audio_inputs |-> ni,
     num_audio_outputs |-> no]

\* an entry of the handshake's history
Issued(cmd, arg, out, reply) ==
    [cmd |-> cmd, arg |-> arg, out |-> out, reply |-> reply]

\* `?` on an error once the client exists: new() returns it and its locals
\* are dropped in the reverse of the order they were declared, client (the
\* TcpStream is closed) and then host_process (std::process::Child has no
\* Drop: the process is neither killed nor waited for)
NewFails(out) ==
    /\ result' = out
    /\ pc' = "new_failed"
    /\ sock_open' = FALSE
    /\ child' = "released"
    /\ teardown' = teardown \o <<"close_socket", "release_child">>

\* cmd.spawn()
NewSpawn(spawned) ==
    /\ pc = "new_spawn"
    /\ IF spawned
       THEN /\ child' = "held"
            /\ worker' = "idle"
            /\ pc' = "new_connect"
            /\ UNCHANGED result
       ELSE /\ result' = "Transport"
            /\ pc' = "new_failed"
            /\ UNCHANGED <<child, worker>>
    /\ UNCHANGED <<newIdle, op, args, num_inputs, num_outputs, param_ids,
                   sock_open, teardown, handshake>>
    /\ UNCHANGED auxVars

\* the loop over the ports, and `client.ok_or_else(..)?`: when no port
\* connects new() returns and host_process is dropped
NewConnect(connected) ==
    /\ pc = "new_connect"
    /\ IF connected
       THEN /\ sock_open' = TRUE
            /\ pc' = "new_ping"
            /\ UNCHANGED <<result, child, teardown>>
       ELSE /\ result' = "Transport"
            /\ pc' = "new_failed"
            /\ child' = "released"
            /\ teardown' = Append(teardown, "release_child")
            /\ UNCHANGED sock_open
    /\ UNCHANGED <<newIdle, op, args, num_inputs, num_outputs, param_ids,
                   worker, handshake>>
    /\ UNCHANGED auxVars

\* a faulty new(): the outcome of ping() is not looked at
NewPing_IgnoresOutcome(out) ==
    /\ pc = "new_ping"
    /\ handshake' = Append(handshake, Issued("Ping", None, out, None))
    /\ pc' = "new_load"
    /\ UNCHANGED <<result, sock_open, child, teardown>>
    /\ UNCHANGED <<newIdle, op, args, num_inputs, num_outputs, param_ids,
                   worker>>
    /\ UNCHANGED auxVars

\* client.ping()?
NewPing(out) ==
    /\ pc = "new_ping"
    /\ handshake' = Append(handshake, Issued("Ping", None, out, None))
    /\ IF out = "Ok"
       THEN /\ pc' = "new_load"
            /\ UNCHANGED <<result, sock_open, child, teardown>>
       ELSE NewFails(out)
    /\ UNCHANGED <<newIdle, op, args, num_inputs, num_outputs, param_ids,
                   worker>>
    /\ UNCHANGED auxVars

\* client.load_plugin(&wine_path, 0)?
NewLoadPlugin(out) ==
    /\ pc = "new_load"
    /\ handshake' = Append(handshake, Issued("LoadPlugin", 0, out, None))
    /\ IF out = "Ok"
       THEN /\ pc' = "new_info"
            /\ UNCHANGED <<result, sock_open, child, teardown>>
       ELSE NewFails(out)
    /\ UNCHANGED <<newIdle, op, args, num_inputs, num_outputs, param_ids,
                   worker>>
    /\ UNCHANGED auxVars

\* client.get_info()?, the reply carrying num_params and the channel counts
NewGetInfo(out, np, ni, no) ==
    /\ pc = "new_info"
    /\ handshake' = Append(handshake,
                           Issued("GetInfo", None, out,
                                  IF out = "Ok" THEN np ELSE None))
    /\ IF out = "Ok"
       THEN /\ pc' = "new_params"
            /\ args' = NewLocals(0, np, ni, no)
            /\ UNCHANGED <<result, sock_open, child, teardown>>
       ELSE /\ NewFails(out)
            /\ UNCHANGED args
    /\ UNCHANGED <<newIdle, op, num_inputs, num_outputs, param_ids, worker>>
    /\ UNCHANGED auxVars

\* the loop `for i in 0..param_count`: the id is pushed when
\* get_param_info(i) is Ok, and the loop goes on when it is not
NewGetParamInfo(out) ==
    /\ pc = "new_params"
    /\ args.i < args.num_params
    /\ handshake' = Append(handshake, Issued("GetParamInfo", args.i, out, None))
    /\ param_ids' = IF out = "Ok"
                    THEN Append(param_ids, 100 + args.i)
                    ELSE param_ids
    /\ args' = [args EXCEPT !.i = @ + 1]
    /\ UNCHANGED <<newIdle, pc, op, result, num_inputs, num_outputs, child,
                   sock_open, worker, teardown>>
    /\ UNCHANGED auxVars

\* Ok(Self { .. })
NewReturns ==
    /\ pc = "new_params"
    /\ args.i = args.num_params
    /\ num_inputs' = args.num_audio_inputs
    /\ num_outputs' = args.num_audio_outputs
    /\ args' = NoArgs
    /\ result' = "Ok"
    /\ pc' = "idle"
    /\ UNCHANGED <<newIdle, op, param_ids, child, sock_open, worker, teardown,
                   handshake>>
    /\ UNCHANGED auxVars

\* the worker of a construction that failed ends by itself, or does not
WorkerEnds ==
    /\ pc = "new_failed"
    /\ worker = "idle"
    /\ worker' = "exited"
    /\ UNCHANGED <<ctlVars, sessVars, osVars, sockVars, wregion, histVars>>
    /\ UNCHANGED auxVars

\* before new(): no process, no socket, no session
InitNew ==
    /\ pc = "new_spawn" /\ op = "new" /\ req = NoRequest /\ resp = NoResponse
    /\ args = NoArgs /\ outbuf = <<>> /\ result = "none"
    /\ last = NoLast
    /\ initialized = FALSE
    /\ shm_ptr = None /\ shm_path = None /\ shm_size = 0
    /\ sample_rate = 0 /\ block_size = 0
    /\ num_inputs = 0 /\ num_outputs = 0
    /\ param_ids = <<>>
    /\ child = "none"
    /\ shm_counter = 0 /\ files = {} /\ regions = <<>>
    /\ sock_out = <<>> /\ sock_in = <<>> /\ sock_open = FALSE
    /\ worker = "none" /\ wregion = None
    /\ ops = 0 /\ unanswered = 0 /\ faulted = FALSE
    /\ quiet0 = TRUE /\ teardown = <<>>
    /\ handshake = <<>>
    /\ listening = {} /\ probed = <<>> /\ peer = None
    /\ retval = None /\ minted = <<>> /\ gui = NoGui /\ tx = <<>>

NextNew ==
    \/ \E spawned \in BOOLEAN : NewSpawn(spawned)
    \/ \E connected \in BOOLEAN : NewConnect(connected)
    \/ \E out \in RequestResults : NewPing(out)
    \/ \E out \in RequestResults : NewLoadPlugin(out)
    \/ \E out \in RequestResults, np \in 0..MaxParams,
          ni \in ChannelCounts, no \in ChannelCounts :
          NewGetInfo(out, np, ni, no)
    \/ \E out \in RequestResults : NewGetParamInfo(out)
    \/ NewReturns
    \/ WorkerEnds

SpecNew == InitNew /\ [][NextNew]_vars

\* ------------------------------------------------------- port discovery
\* the loop of new() over the ports, one connect per step; the worker
\* listens on some of the ports next to the two ends of the range
ListenChoices ==
    SUBSET {RACK_WINE_PORT_BASE - 1, RACK_WINE_PORT_BASE,
            RACK_WINE_PORT_BASE + 1, RACK_WINE_PORT_MAX,
            RACK_WINE_PORT_MAX + 1}

\* a faulty loop: no `break` after the first connect
NewProbe_NoBreak ==
    /\ pc = "new_connect"
    /\ args.port <= RACK_WINE_PORT_MAX
    /\ probed' = Append(probed, args.port)
    /\ args' = [port |-> args.port + 1]
    /\ IF args.port \in listening
       THEN /\ peer' = args.port
            /\ sock_open' = TRUE
       ELSE UNCHANGED <<peer, sock_open>>
    /\ UNCHANGED <<newIdle, pc, op, result, num_inputs, num_outputs,
                   param_ids, child, worker, teardown, handshake, listening,
                   retval, minted, gui, tx>>

\* `for port in RACK_WINE_PORT_BASE..=RACK_WINE_PORT_MAX`: one
\* WineClient::connect(port), and `break` when it is Ok
NewProbe ==
    /\ pc = "new_connect"
    /\ args.port <= RACK_WINE_PORT_MAX
    /\ probed' = Append(probed, args.port)
    /\ IF args.port \in listening
       THEN /\ peer' = args.port
            /\ sock_open' = TRUE
            /\ pc' = "new_ping"
            /\ UNCHANGED args
       ELSE /\ args' = [port |-> args.port + 1]
            /\ UNCHANGED <<peer, sock_open, pc>>
    /\ UNCHANGED <<newIdle, op, result, num_inputs, num_outputs, param_ids,
                   child, worker, teardown, handshake, listening, retval,
                   minted, gui, tx>>

\* the range is exhausted: `client.ok_or_else(..)?` returns the error when
\* no connect was Ok, and host_process is dropped
NewProbeEnds ==
    /\ pc = "new_connect"
    /\ args.port > RACK_WINE_PORT_MAX
    /\ IF peer = None
       THEN /\ result' = "Transport"
            /\ pc' = "new_failed"
            /\ child' = "released"
            /\ teardown' = Append(teardown, "release_child")
       ELSE /\ pc' = "new_ping"
            /\ UNCHANGED <<result, child, teardown>>
    /\ UNCHANGED <<newIdle, op, args, num_inputs, num_outputs, param_ids,
                   sock_open, worker, handshake, auxVars>>

\* new() after cmd.spawn(): the worker runs and listens
InitPorts ==
    /\ pc = "new_connect" /\ op = "new" /\ req = NoRequest
    /\ resp = NoResponse
    /\ args = [port |-> RACK_WINE_PORT_BASE]
    /\ outbuf = <<>> /\ result = "none"
    /\ last = NoLast
    /\ initialized = FALSE
    /\ shm_ptr = None /\ shm_path = None /\ shm_size = 0
    /\ sample_rate = 0 /\ block_size = 0
    /\ num_inputs = 0 /\ num_outputs = 0
    /\ param_ids = <<>>
    /\ child = "held"
    /\ shm_counter = 0 /\ files = {} /\ regions = <<>>
    /\ sock_out = <<>> /\ sock_in = <<>> /\ sock_open = FALSE
    /\ worker = "idle" /\ wregion = None
    /\ ops = 0 /\ unanswered = 0 /\ faulted = FALSE
    /\ quiet0 = TRUE /\ teardown = <<>>
    /\ handshake = <<>>
    /\ listening \in ListenChoices /\ probed = <<>> /\ peer = None
    /\ retval = None /\ minted = <<>> /\ gui = NoGui /\ tx = <<>>

NextPorts ==
    \/ NewProbe
    \/ NewProbeEnds

SpecPorts == InitPorts /\ [][NextPorts]_vars

\* --------------------------------------------- parameters, presets, state
\* sessions with an empty and with a two-entry id table, armed or not, and
\* the calls on parameters, presets and state
InitParam ==
    /\ pc = "idle" /\ op = "none" /\ req = NoRequest /\ resp = NoResponse
    /\ args = NoArgs /\ outbuf \in CallerOutputs /\ result = "none"
    /\ last = NoLast
    /\ initialized = FALSE
    /\ shm_ptr = None /\ shm_path = None /\ shm_size = 0
    /\ sample_rate = 0 /\ block_size = 0
    /\ num_inputs = 1 /\ num_outputs = 1
    /\ param_ids \in ParamTables
    /\ child = "held"
    /\ shm_counter = 0 /\ files = {} /\ regions = <<>>
    /\ sock_out = <<>> /\ sock_in = <<>> /\ sock_open = TRUE
    /\ worker = "idle" /\ wregion = None
    /\ ops = 0 /\ unanswered = 0 /\ faulted = FALSE
    /\ quiet0 = TRUE /\ teardown = <<>>
    /\ handshake = <<>>
    /\ listening = {RACK_WINE_PORT_BASE} /\ probed = <<RACK_WINE_PORT_BASE>>
    /\ peer = RACK_WINE_PORT_BASE
    /\ retval = None /\ minted = <<>> /\ gui = NoGui /\ tx = <<>>

NextParam ==
    \/ \E a \in InitializeArgs : Initialize(a[1], a[2], "ok")
    \/ \E index \in 0..2, value \in ParamValues : SetParameter(index, value)
    \/ \E index \in 0..2 : GetParameter(index)
    \/ preset_count
    \/ \E index \in 0..1 : preset_info(index)
    \/ \E n \in 0..1 : load_preset(n)
    \/ get_state
    \/ \E data \in {<<>>, <<1>>} : set_state(data)
    \/ SendCommand
    \/ RecvHeader
    \/ RecvPayload
    \/ \E r \in SessionReplies : WorkerReply(r[1], r[2])

SpecParam == InitParam /\ [][NextParam]_vars

\* -------------------------------------------- shared-region names
\* the threads that own sessions, and the process ids a run may have
Threads == {"t1", "t2"}
Pids == {7, 4242}

DigitChars == <<"0", "1", "2", "3", "4", "5", "6", "7", "8", "9">>

\* what `{}` prints for an unsigned integer
RECURSIVE Decimal(_)
Decimal(n) ==
    IF n < 10 THEN <<DigitChars[n + 1]>>
    ELSE Decimal(n \div 10) \o <<DigitChars[(n % 10) + 1]>>

\* format!("/tmp/rack-wine-audio-{}-{}", pid, counter)
ShmName(pid, counter) ==
    <<"/tmp/rack-wine-audio-">> \o Decimal(pid) \o <<"-">> \o Decimal(counter)

\* a faulty draw: the counter is read and left as it was
Mint_Load(t) ==
    LET counter == shm_counter
    IN  /\ Len(minted) < MaxMints
        /\ UNCHANGED shm_counter
        /\ minted' = Append(minted, [thread |-> t, counter |-> counter,
                                     path |-> ShmName(args.pid, counter)])
        /\ UNCHANGED <<ctlVars, sessVars, files, regions, sockVars,
                       workerVars, histVars, listening, probed, peer, retval,
                       gui, tx>>

\* the first lines of setup_shared_memory() in a session owned by thread t:
\* fetch_add(1, SeqCst) is one atomic step, the pid and the formatting are
\* local to the thread
Mint(t) ==
    LET counter == shm_counter
    IN  /\ Len(minted) < MaxMints
        /\ shm_counter' = counter + 1
        /\ minted' = Append(minted, [thread |-> t, counter |-> counter,
                                     path |-> ShmName(args.pid, counter)])
        /\ UNCHANGED <<ctlVars, sessVars, files, regions, sockVars,
                       workerVars, histVars, listening, probed, peer, retval,
                       gui, tx>>

\* a process that has drawn no name yet
InitCounter ==
    /\ pc = "idle" /\ op = "none" /\ req = NoRequest /\ resp = NoResponse
    /\ \E pid \in Pids : args = [pid |-> pid]
    /\ outbuf = <<>> /\ result = "none" /\ last = NoLast
    /\ initialized = FALSE
    /\ shm_ptr = None /\ shm_path = None /\ shm_size = 0
    /\ sample_rate = 0 /\ block_size = 0
    /\ num_inputs = 1 /\ num_outputs = 1
    /\ param_ids = <<>>
    /\ child = "held"
    /\ shm_counter = 0 /\ files = {} /\ regions = <<>>
    /\ sock_out = <<>> /\ sock_in = <<>> /\ sock_open = TRUE
    /\ worker = "idle" /\ wregion = None
    /\ ops = 0 /\ unanswered = 0 /\ faulted = FALSE
    /\ quiet0 = TRUE /\ teardown = <<>>
    /\ handshake = <<>>
    /\ listening = {RACK_WINE_PORT_BASE} /\ probed = <<RACK_WINE_PORT_BASE>>
    /\ peer = RACK_WINE_PORT_BASE
    /\ retval = None /\ minted = <<>> /\ gui = NoGui /\ tx = <<>>

NextCounter == \E t \in Threads : Mint(t)

SpecCounter == InitCounter /\ [][NextCounter]_vars

\* ------------------------------------------------- MIDI and the header
\* `a & b` and `a | b` on unsigned integers
RECURSIVE BitAnd(_, _)
BitAnd(a, b) ==
    IF a = 0 \/ b = 0 THEN 0
    ELSE (IF a % 2 = 1 /\ b % 2 = 1 THEN 1 ELSE 0)
         + 2 * BitAnd(a \div 2, b \div 2)

RECURSIVE BitOr(_, _)
BitOr(a, b) ==
    IF a = 0 THEN b
    ELSE IF b = 0 THEN a
    ELSE (IF a % 2 = 1 \/ b % 2 = 1 THEN 1 ELSE 0)
         + 2 * BitOr(a \div 2, b \div 2)

\* `value >> 7`
Shr7(value) == value \div 128

\* `x as u8`
AsU8(x) == x % 256

\* the events a caller hands to send_midi: every kind with a channel, one
\* with a channel above 15, offsets of one and of several bytes, and a
\* system real-time event
MidiEvents ==
    { [sample_offset |-> 128, kind |-> "NoteOn", note |-> 60,
       velocity |-> 100, channel |-> 0],
      [sample_offset |-> 0, kind |-> "NoteOff", note |-> 60, velocity |-> 0,
       channel |-> 17],
      [sample_offset |-> 65536, kind |-> "ControlChange", controller |-> 7,
       value |-> 127, channel |-> 15],
      [sample_offset |-> 1, kind |-> "ProgramChange", program |-> 5,
       channel |-> 9],
      [sample_offset |-> 2, kind |-> "PitchBend", value |-> 8192,
       channel |-> 3],
      [sample_offset |-> 300, kind |-> "PitchBend", value |-> 16383,
       channel |-> 0],
      [sample_offset |-> 4, kind |-> "PolyphonicAftertouch", note |-> 64,
       pressure |-> 10, channel |-> 2],
      [sample_offset |-> 5, kind |-> "ChannelAftertouch", pressure |-> 99,
       channel |-> 4],
      [sample_offset |-> 6, kind |-> "TimingClock"] }

\* the lists of at most MaxEvents events
EventLists ==
    UNION { [1..n -> MidiEvents] : n \in 0..MaxEvents }

\* a faulty status byte: the channel is not masked
ChannelStatus_NoMask(base, channel) == AsU8(BitOr(base, channel))

\* `0x90 | (channel & 0x0F)` and its like
ChannelStatus(base, channel) == BitOr(base, BitAnd(channel, 15))

\* the match on e.kind in send_midi: (status, data1, data2)
MidiTriple(e) ==
    CASE e.kind = "NoteOn" ->
            <<ChannelStatus(144, e.channel), e.note, e.velocity>>
      [] e.kind = "NoteOff" ->
            <<ChannelStatus(128, e.channel), e.note, e.velocity>>
      [] e.kind = "ControlChange" ->
            <<ChannelStatus(176, e.channel), e.controller, e.value>>
      [] e.kind = "ProgramChange" ->
            <<ChannelStatus(192, e.channel), e.program, 0>>
      [] e.kind = "PitchBend" ->
            LET lsb == AsU8(BitAnd(e.value, 127))
                msb == AsU8(BitAnd(Shr7(e.value), 127))
            IN  <<ChannelStatus(224, e.channel), lsb, msb>>
      [] e.kind = "PolyphonicAftertouch" ->
            <<ChannelStatus(160, e.channel), e.note, e.pressure>>
      [] e.kind = "ChannelAftertouch" ->
            <<ChannelStatus(208, e.channel), e.pressure, 0>>
      [] OTHER -> <<0, 0, 0>>

\* protocol::MidiEvent::new
MidiEventNew(sample_offset, status, data1, data2) ==
    [sample_offset |-> sample_offset, data |-> <<status, data1, data2, 0>>]

\* protocol::MidiEvent::to_bytes
MidiEventToBytes(event) == U32ToLeBytes(event.sample_offset) \o event.data

\* CmdMidi { num_events }.to_bytes()
CmdMidiToBytes(num_events) == U32ToLeBytes(num_events)

\* the loop `for event in events { payload.extend_from_slice(..) }`
RECURSIVE ExtendAll(_, _)
ExtendAll(payload, events) ==
    IF events = <<>> THEN payload
    ELSE ExtendAll(payload \o MidiEventToBytes(Head(events)), Tail(events))

\* a faulty payload: the count is of bytes, not of events
MidiPayload_ByteCount(events) ==
    ExtendAll(CmdMidiToBytes(8 * Len(events)), events)

\* WineClient::send_midi's payload
MidiPayload(events) == ExtendAll(CmdMidiToBytes(Len(events)), events)

\* `command as u32`
HostCommandAsU32(command) ==
    CASE command = "Ping" -> 1
      [] command = "LoadPlugin" -> 2
      [] command = "UnloadPlugin" -> 3
      [] command = "GetInfo" -> 4
      [] command = "Init" -> 5
      [] command = "Process" -> 6
      [] command = "GetParamCount" -> 7
      [] command = "GetParamInfo" -> 8
      [] command = "GetParam" -> 9
      [] command = "SetParam" -> 10
      [] command = "SendMidi" -> 11
      [] command = "GetState" -> 12
      [] command = "SetState" -> 13
      [] command = "OpenEditor" -> 14
      [] command = "CloseEditor" -> 15
      [] command = "GetEditorSize" -> 16
      [] command = "InitAudio" -> 20
      [] command = "ProcessAudio" -> 21
      [] command = "Shutdown" -> 99

HostCommands ==
    {"Ping", "LoadPlugin", "UnloadPlugin", "GetInfo", "Init", "Process",
     "GetParamCount", "GetParamInfo", "GetParam", "SetParam", "SendMidi",
     "GetState", "SetState", "OpenEditor", "CloseEditor", "GetEditorSize",
     "InitAudio", "ProcessAudio", "Shutdown"}

\* payload sizes: each byte of the word exercised, up to the largest the
\* checker's integers hold
HeaderPayloadSizes == {0, 1, 255, 256, 1028, 65535, 65536, 16777216, 2147483647}

\* Header::new
HeaderNew(command, payload_size) ==
    [magic |-> RACK_WINE_MAGIC, version |-> RACK_WINE_PROTOCOL_VERSION,
     command |-> HostCommandAsU32(command), payload_size |-> payload_size]

\* a faulty to_bytes: the words are written most significant byte first
HeaderToBytes_BigEndian(h) ==
    LET be(x) == <<U32ToLeBytes(x)[4], U32ToLeBytes(x)[3],
                   U32ToLeBytes(x)[2], U32ToLeBytes(x)[1]>>
    IN  be(h.magic) \o be(h.version) \o be(h.command) \o be(h.payload_size)

\* Header::to_bytes
HeaderToBytes(h) ==
    U32ToLeBytes(h.magic) \o U32ToLeBytes(h.version)
        \o U32ToLeBytes(h.command) \o U32ToLeBytes(h.payload_size)

\* Header::from_bytes
HeaderFromBytes(buf) ==
    [magic |-> U32FromLeBytes(SubSeq(buf, 1, 4)),
     version |-> U32FromLeBytes(SubSeq(buf, 5, 8)),
     command |-> U32FromLeBytes(SubSeq(buf, 9, 12)),
     payload_size |-> U32FromLeBytes(SubSeq(buf, 13, 16))]

\* send_midi(events): the events are mapped, the payload is built, and one
\* request() is made, with any of its outcomes; tx is what send_command
\* wrote for it
SendMidi(events, out) ==
    /\ pc = "idle"
    /\ op' = "send_midi"
    /\ args' = [events |-> events]
    /\ LET midi_events ==
               [i \in 1..Len(events) |->
                   LET t == MidiTriple(events[i])
                   IN  MidiEventNew(events[i].sample_offset, t[1], t[2], t[3])]
           payload == MidiPayload(midi_events)
       IN  tx' = HeaderToBytes(HeaderNew("SendMidi", Len(payload))) \o payload
    /\ result' = out
    /\ UNCHANGED <<pc, req, resp, outbuf, last, sessVars, osVars, sockVars,
                   workerVars, histVars, listening, probed, peer, retval,
                   minted, gui>>

\* Header::from_bytes(&Header::new(command, payload_size).to_bytes())
HeaderRoundTrip(command, payload_size) ==
    /\ pc = "idle"
    /\ op' = "header"
    /\ args' = [command |-> command, payload_size |-> payload_size]
    /\ tx' = HeaderToBytes(HeaderNew(command, payload_size))
    /\ retval' = HeaderFromBytes(tx')
    /\ UNCHANGED <<pc, req, resp, outbuf, result, last, sessVars, osVars,
                   sockVars, workerVars, histVars, listening, probed, peer,
                   minted, gui>>

\* the arguments of the calls: a list of events, or a command and a size
CodecArgs ==
    { [events |-> events] : events \in EventLists }
        \cup { [command |-> command, payload_size |-> payload_size] :
                   command \in HostCommands,
                   payload_size \in HeaderPayloadSizes }

\* a session after construction, with the arguments of the call to be made
InitCodec ==
    /\ pc = "idle" /\ op = "none" /\ req = NoRequest /\ resp = NoResponse
    /\ args \in CodecArgs
    /\ outbuf = <<>> /\ result = "none" /\ last = NoLast
    /\ initialized = FALSE
    /\ shm_ptr = None /\ shm_path = None /\ shm_size = 0
    /\ sample_rate = 0 /\ block_size = 0
    /\ num_inputs = 1 /\ num_outputs = 1
    /\ param_ids = <<>>
    /\ child = "held"
    /\ shm_counter = 0 /\ files = {} /\ regions = <<>>
    /\ sock_out = <<>> /\ sock_in = <<>> /\ sock_open = TRUE
    /\ worker = "idle" /\ wregion = None
    /\ ops = 0 /\ unanswered = 0 /\ faulted = FALSE
    /\ quiet0 = TRUE /\ teardown = <<>>
    /\ handshake = <<>>
    /\ listening = {RACK_WINE_PORT_BASE} /\ probed = <<RACK_WINE_PORT_BASE>>
    /\ peer = RACK_WINE_PORT_BASE
    /\ retval = None /\ minted = <<>> /\ gui = NoGui /\ tx = <<>>

NextCodec ==
    \/ /\ "events" \in DOMAIN args
       /\ \E out \in RequestResults : SendMidi(args.events, out)
    \/ /\ "command" \in DOMAIN args
       /\ HeaderRoundTrip(args.command, args.payload_size)

SpecCodec == InitCodec /\ [][NextCodec]_vars

\* ------------------------------------------- payload encoders, decoders
\* a session after construction, all but the arguments of the call to be
\* made
InitIdle ==
    /\ pc = "idle" /\ op = "none" /\ req = NoRequest /\ resp = NoResponse
    /\ outbuf = <<>> /\ result = "none" /\ last = NoLast
    /\ initialized = FALSE
    /\ shm_ptr = None /\ shm_path = None /\ shm_size = 0
    /\ sample_rate = 0 /\ block_size = 0
    /\ num_inputs = 1 /\ num_outputs = 1
    /\ param_ids = <<>>
    /\ child = "held"
    /\ shm_counter = 0 /\ files = {} /\ regions = <<>>
    /\ sock_out = <<>> /\ sock_in = <<>> /\ sock_open = TRUE
    /\ worker = "idle" /\ wregion = None
    /\ ops = 0 /\ unanswered = 0 /\ faulted = FALSE
    /\ quiet0 = TRUE /\ teardown = <<>>
    /\ handshake = <<>>
    /\ listening = {RACK_WINE_PORT_BASE} /\ probed = <<RACK_WINE_PORT_BASE>>
    /\ peer = RACK_WINE_PORT_BASE
    /\ retval = None /\ minted = <<>> /\ gui = NoGui /\ tx = <<>>

\* what a pure function of the protocol leaves alone
pureIdle == <<pc, req, resp, outbuf, result, last, sessVars, osVars,
              sockVars, workerVars, histVars, listening, probed, peer,
              minted, gui>>

\* the bytes of a string without NUL, and those of a buffer with NULs in it
TextBytes(len, seed) == [i \in 1..len |-> 1 + ((i + seed) % 127)]
BufferBytes(len, seed) == [i \in 1..len |-> (i * seed) % 128]

\* lengths around the limits of the two fields
PathLens == {0, 1, 1022, 1023, 1024, 1025, 1500}
NameLens == {0, 1, 44, 62, 63, 64, 65, 100}
ClassIndexes == {0, 1, 258, 2147483647}

\* a faulty new: the whole field is filled, no terminator is kept
CmdLoadPluginNew_NoTerminator(path, class_index) ==
    LET len == Min(Len(path), 1024)
    IN  [path |-> [i \in 1..1024 |-> IF i <= len THEN path[i] ELSE 0],
         class_index |-> class_index]

\* CmdLoadPlugin::new
CmdLoadPluginNew(path, class_index) ==
    LET len == Min(Len(path), 1023)
    IN  [path |-> [i \in 1..1024 |-> IF i <= len THEN path[i] ELSE 0],
         class_index |-> class_index]

\* CmdLoadPlugin::to_bytes
CmdLoadPluginToBytes(cmd) == cmd.path \o U32ToLeBytes(cmd.class_index)

\* CmdInitAudio::new
CmdInitAudioNew(sr, bs, ni, no, name) ==
    LET len == Min(Len(name), 63)
    IN  [sample_rate |-> sr, block_size |-> bs, num_inputs |-> ni,
         num_outputs |-> no,
         shm_name |-> [i \in 1..64 |-> IF i <= len THEN name[i] ELSE 0]]

\* CmdInitAudio::to_bytes
CmdInitAudioToBytes(cmd) ==
    U32ToLeBytes(cmd.sample_rate) \o U32ToLeBytes(cmd.block_size)
        \o U32ToLeBytes(cmd.num_inputs) \o U32ToLeBytes(cmd.num_outputs)
        \o cmd.shm_name

\* CmdLoadPlugin::new(path, class_index).to_bytes()
EncodeLoadPlugin ==
    /\ pc = "idle"
    /\ "path" \in DOMAIN args
    /\ op' = "CmdLoadPlugin"
    /\ tx' = CmdLoadPluginToBytes(CmdLoadPluginNew(args.path, args.class_index))
    /\ UNCHANGED <<pureIdle, args, retval>>

\* CmdInitAudio::new(.., shm_name).to_bytes()
EncodeInitAudio ==
    /\ pc = "idle"
    /\ "shm_name" \in DOMAIN args
    /\ op' = "CmdInitAudio"
    /\ tx' = CmdInitAudioToBytes(CmdInitAudioNew(args.sample_rate,
                 args.block_size, args.num_inputs, args.num_outputs,
                 args.shm_name))
    /\ UNCHANGED <<pureIdle, args, retval>>

\* the arguments of the two encoders
EncoderArgs ==
    { [path |-> TextBytes(len, seed), class_index |-> k] :
          len \in PathLens, seed \in {0, 64}, k \in ClassIndexes }
        \cup { [sample_rate |-> sr, block_size |-> bs, num_inputs |-> 2,
                num_outputs |-> 2, shm_name |-> TextBytes(len, seed)] :
                   sr \in {44100, 48000}, bs \in {1, 512},
                   len \in NameLens, seed \in {0, 64} }

InitEncoders == InitIdle /\ args \in EncoderArgs

NextEncoders ==
    \/ EncodeLoadPlugin
    \/ EncodeInitAudio

SpecEncoders == InitEncoders /\ [][NextEncoders]_vars

\* &buf[a..b], as the 1-based subsequence
Slice(buf, a, b) == SubSeq(buf, a + 1, b)

\* read_string: the bytes before the first NUL, or max_len of them (the
\* bytes are ASCII, which from_utf8_lossy leaves as they are)
ReadString(data, max_len) ==
    LET nuls == {i \in 1..Len(data) : data[i] = 0}
        end == IF nuls = {} THEN max_len
               ELSE (CHOOSE i \in nuls : \A j \in nuls : i <= j) - 1
    IN  SubSeq(data, 1, end)

\* f64::from_le_bytes: the sign, the biased exponent and the seven bytes
\* of the fraction, least significant first (the top one holds four bits)
F64FromLeBytes(b) ==
    [negative |-> b[8] >= 128,
     exp |-> (b[8] % 128) * 16 + (b[7] \div 16),
     frac |-> <<b[1], b[2], b[3], b[4], b[5], b[6], b[7] % 16>>]

\* what a decoder gives: nothing, a value with the number of leading bytes
\* it read, or the panic of an index past the end
Absent == [kind |-> "None", read |-> 0]
Panic(read) == [kind |-> "panic", read |-> read]
Some(value, read) == [kind |-> "Some", value |-> value, read |-> read]

\* a faulty from_bytes: the flags are read whatever the length
RespPluginInfoExtent_FlagsAlways(len) == 720

\* RespPluginInfo::from_bytes reads bytes 0..716, and `if buf.len() >= 720`
\* bytes 716..720
RespPluginInfoExtent(len) == IF len >= 720 THEN 720 ELSE 716

\* RespPluginInfo::from_bytes
RespPluginInfoFromBytes(buf) ==
    IF Len(buf) < 716 THEN Absent
    ELSE LET read == RespPluginInfoExtent(Len(buf))
         IN  IF read > Len(buf) THEN Panic(read)
             ELSE Some([name |-> ReadString(Slice(buf, 0, 256), 256),
                        vendor |-> ReadString(Slice(buf, 256, 512), 256),
                        category |-> ReadString(Slice(buf, 512, 640), 128),
                        uid |-> ReadString(Slice(buf, 640, 704), 64),
                        num_params |-> U32FromLeBytes(Slice(buf, 704, 708)),
                        num_audio_inputs |->
                            U32FromLeBytes(Slice(buf, 708, 712)),
                        num_audio_outputs |->
                            U32FromLeBytes(Slice(buf, 712, 716)),
                        flags |-> IF read = 720
                                  THEN U32FromLeBytes(Slice(buf, 716, 720))
                                  ELSE 0],
                       read)

\* RespParamInfo::from_bytes: the last byte read is buf[191]
RespParamInfoFromBytes(buf) ==
    IF Len(buf) < 196 THEN Absent
    ELSE Some([id |-> U32FromLeBytes(Slice(buf, 0, 4)),
               name |-> ReadString(Slice(buf, 4, 132), 128),
               units |-> ReadString(Slice(buf, 132, 164), 32),
               default_value |-> F64FromLeBytes(Slice(buf, 164, 172)),
               min_value |-> F64FromLeBytes(Slice(buf, 172, 180)),
               max_value |-> F64FromLeBytes(Slice(buf, 180, 188)),
               flags |-> U32FromLeBytes(Slice(buf, 188, 192))],
              192)

\* RespEditorInfo::from_bytes
RespEditorInfoFromBytes(buf) ==
    IF Len(buf) < 12 THEN Absent
    ELSE Some([x11_window_id |-> U32FromLeBytes(Slice(buf, 0, 4)),
               width |-> U32FromLeBytes(Slice(buf, 4, 8)),
               height |-> U32FromLeBytes(Slice(buf, 8, 12))],
              12)

\* a decoder is applied to a payload
Decode(name, value) ==
    /\ pc = "idle"
    /\ "buf" \in DOMAIN args
    /\ op' = name
    /\ retval' = value
    /\ UNCHANGED <<pureIdle, args, tx>>

DecodePluginInfo == Decode("RespPluginInfo", RespPluginInfoFromBytes(args.buf))
DecodeParamInfo == Decode("RespParamInfo", RespParamInfoFromBytes(args.buf))
DecodeEditorInfo == Decode("RespEditorInfo", RespEditorInfoFromBytes(args.buf))

\* payloads of every length around the decoders' limits
BufferLens == {0, 1, 11, 12, 13, 195, 196, 197, 715, 716, 717, 718, 719,
               720, 721, 800}
BufferSeeds == {0, 3, 5}

\* protocol::ParamChangeEvent::from_bytes: a param_id and a value, 12 bytes
ParamChangeEventFromBytes(buf) ==
    IF Len(buf) < 12 THEN Absent
    ELSE Some([param_id |-> U32FromLeBytes(Slice(buf, 0, 4)),
               value |-> F64FromLeBytes(Slice(buf, 4, 12))],
              12)

\* a faulty loop: the count is skipped twice
ChangesStart_Twice == 4 + 4

\* `let mut offset = 4`
ChangesStart == 4

\* the loop of get_param_changes, with `remaining` turns to go: it stops at
\* the first record that does not fit
RECURSIVE ChangesLoop(_, _, _, _)
ChangesLoop(payload, remaining, offset, acc) ==
    IF remaining = 0 \/ offset + 12 > Len(payload) THEN acc
    ELSE LET change ==
                 ParamChangeEventFromBytes(Slice(payload, offset, Len(payload)))
         IN  ChangesLoop(payload, remaining - 1, offset + 12,
                         [changes |-> IF change.kind = "Some"
                                      THEN Append(acc.changes, change.value)
                                      ELSE acc.changes,
                          read |-> offset + change.read])

\* get_param_changes after request() returned the payload
ChangesFromPayload(payload) ==
    IF Len(payload) < 4 THEN [kind |-> "Ok", changes |-> <<>>, read |-> 0]
    ELSE LET num_changes == U32FromLeBytes(Slice(payload, 0, 4))
             acc == ChangesLoop(payload, num_changes, ChangesStart,
                                [changes |-> <<>>, read |-> 4])
         IN  [kind |-> "Ok", changes |-> acc.changes, read |-> acc.read]

\* get_param_changes(): one request(), whose outcome is any of those it
\* has; args.payload is the payload of the worker's reply
GetParamChanges(out) ==
    /\ pc = "idle"
    /\ "payload" \in DOMAIN args
    /\ op' = "get_param_changes"
    /\ req' = [cmd |-> "GetParamChanges", payload |-> <<>>]
    /\ result' = out
    /\ retval' = IF out = "Ok" THEN ChangesFromPayload(args.payload)
                 ELSE [kind |-> "Err", changes |-> <<>>, read |-> 0]
    /\ UNCHANGED <<pc, resp, outbuf, last, sessVars, osVars, sockVars,
                   workerVars, histVars, listening, probed, peer, minted, gui,
                   args, tx>>

\* replies to GetParamChanges: a count, then bytes for fewer, as many, or
\* more records than it says, whole or cut
ChangeBuffers ==
    { U32ToLeBytes(n) \o BufferBytes(len, seed) :
          n \in {0, 1, 2, 3, 65536}, len \in {0, 11, 12, 13, 24, 35},
          seed \in {3, 5} }

DecoderArgs ==
    { [buf |-> BufferBytes(len, seed)] :
          len \in BufferLens, seed \in BufferSeeds }
        \cup { [payload |-> payload] :
                   payload \in ChangeBuffers \cup {<<>>, <<2, 0, 0>>} }

InitDecoders == InitIdle /\ args \in DecoderArgs

NextDecoders ==
    \/ DecodePluginInfo
    \/ DecodeParamInfo
    \/ DecodeEditorInfo
    \/ \E out \in RequestResults : GetParamChanges(out)

SpecDecoders == InitDecoders /\ [][NextDecoders]_vars

\* ------------------------------------------------------------- discovery
\* a directory tree under the root (node 0): the parent of each node, and
\* what each node is
Nodes == 1..5
Parent == <<0, 0, 1, 1, 3>>
Shapes == {"container", "dir", "locked", "file", "hidden", "upper"}

\* the name of node n: a directory n1.vst3, n1, n1 (that cannot be listed),
\* a regular file f1.vst3, a directory .1vst3, a directory n1.VST3
NodeName(n, shape) ==
    CASE shape = "container" -> <<"n", DigitChars[n + 1], ".", "v", "s", "t", "3">>
      [] shape = "dir" -> <<"n", DigitChars[n + 1]>>
      [] shape = "locked" -> <<"n", DigitChars[n + 1]>>
      [] shape = "file" -> <<"f", DigitChars[n + 1], ".", "v", "s", "t", "3">>
      [] shape = "hidden" -> <<".", DigitChars[n + 1], "v", "s", "t", "3">>
      [] shape = "upper" -> <<"n", DigitChars[n + 1], ".", "V", "S", "T", "3">>

\* the position of the dot that splits a file name into stem and extension,
\* 0 when there is none (no dot, or only a leading one)
SplitAt(name) ==
    LET dots == {i \in 1..Len(name) : name[i] = "."}
        final == IF dots = {} THEN 0
                 ELSE CHOOSE i \in dots : \A j \in dots : j <= i
    IN  IF final <= 1 THEN 0 ELSE final

\* Path::extension and Path::file_stem of a file name
PathExtension(name) ==
    IF SplitAt(name) = 0 THEN [present |-> FALSE, ext |-> <<>>]
    ELSE [present |-> TRUE,
          ext |-> SubSeq(name, SplitAt(name) + 1, Len(name))]
FileStem(name) ==
    IF SplitAt(name) = 0 THEN name ELSE SubSeq(name, 1, SplitAt(name) - 1)

\* `path.extension().map_or(false, |ext| ext == "vst3")`
IsContainerName(name) ==
    PathExtension(name).present
        /\ PathExtension(name).ext = <<"v", "s", "t", "3">>

\* the path of a node, as the names from the root down
RECURSIVE PathOf(_, _)
PathOf(fs, n) ==
    IF n = 0 THEN <<>>
    ELSE Append(PathOf(fs, Parent[n]), NodeName(n, fs.tree[n]))

\* path.is_dir(), and whether read_dir(dir) succeeds
IsDir(fs, n) == fs.tree[n] # "file"
Listable(fs, dir) ==
    IF dir = 0 THEN fs.root_listable ELSE fs.tree[dir] # "locked"

\* the entries read_dir(dir) gives, in the order it gives them
RECURSIVE EntriesFrom(_, _)
EntriesFrom(dir, n) ==
    IF n > Len(Parent) THEN <<>>
    ELSE (IF Parent[n] = dir THEN <<n>> ELSE <<>>) \o EntriesFrom(dir, n + 1)
ReadDir(dir) == EntriesFrom(dir, 1)

\* a faulty walk: a container is reported and then searched as well
Descend_IntoContainers(fs, n) == TRUE

\* the walk goes into a directory when it is not a container
Descend(fs, n) == ~IsContainerName(NodeName(n, fs.tree[n]))

\* find_vst3_in_dir(dir, results); beside results, acc keeps the
\* directories read_dir was called on and those it listed
RECURSIVE FindVst3InDir(_, _, _)
RECURSIVE ForEntries(_, _, _)
FindVst3InDir(fs, dir, acc) ==
    LET called == [acc EXCEPT !.visited = @ \cup {dir}]
    IN  IF Listable(fs, dir)
        THEN ForEntries(fs, ReadDir(dir),
                        [called EXCEPT !.listed = @ \cup {dir}])
        ELSE called
ForEntries(fs, entries, acc) ==
    IF entries = <<>> THEN acc
    ELSE LET n == Head(entries)
             reported ==
                 IF IsContainerName(NodeName(n, fs.tree[n]))
                 THEN [acc EXCEPT !.results = Append(@, PathOf(fs, n))]
                 ELSE acc
             next == IF ~IsDir(fs, n) THEN acc
                     ELSE IF Descend(fs, n)
                          THEN FindVst3InDir(fs, n, reported)
                          ELSE reported
         IN  ForEntries(fs, Tail(entries), next)

\* a faulty scan_path: a directory that could not be listed is an error
ScanOutcome_ErrOnUnlistable(walk) ==
    IF walk.visited = walk.listed THEN "Ok" ELSE "Other"

\* scan_path returns Ok(results) whatever the walk met
ScanOutcome(walk) == "Ok"

\* the PluginInfo scan_path builds for each path found
PluginInfos(paths) ==
    [i \in 1..Len(paths) |->
        [name |-> FileStem(paths[i][Len(paths[i])]),
         manufacturer |-> "Unknown", version |-> 0, path |-> paths[i],
         unique_id |-> FileStem(paths[i][Len(paths[i])])]]

\* scan_path(path) on the root of args
ScanPathResult(fs) ==
    LET walk == FindVst3InDir(fs, 0,
                    [results |-> <<>>, visited |-> {}, listed |-> {}])
    IN  [kind |-> ScanOutcome(walk), plugins |-> PluginInfos(walk.results),
         visited |-> walk.visited, listed |-> walk.listed]

ScanPath ==
    /\ pc = "idle"
    /\ op' = "scan_path"
    /\ retval' = ScanPathResult(args)
    /\ UNCHANGED <<pureIdle, args, tx>>

\* scan(): a default location is searched `if path.exists()`, and what
\* scan_path found is kept `if let Ok(plugins)`; scan returns Ok
Scan ==
    /\ pc = "idle"
    /\ op' = "scan"
    /\ LET found == ScanPathResult(args)
       IN  retval' = [kind |-> "Ok",
                      plugins |-> IF args.exists /\ found.kind = "Ok"
                                  THEN found.plugins ELSE <<>>,
                      visited |-> IF args.exists THEN found.visited ELSE {},
                      listed |-> IF args.exists THEN found.listed ELSE {}]
    /\ UNCHANGED <<pureIdle, args, tx>>

\* the trees under a root that exists or not and, when it exists, can be
\* listed or not
ScanArgs ==
    { [tree |-> tree, root_listable |-> l[1], exists |-> l[2]] :
          tree \in [Nodes -> Shapes],
          l \in {<<TRUE, TRUE>>, <<FALSE, TRUE>>, <<FALSE, FALSE>>} }

InitScan == InitIdle /\ args \in ScanArgs

NextScan ==
    \/ ScanPath
    \/ Scan

SpecScan == InitScan /\ [][NextScan]_vars

\* ------------------------------------------------------------- Vst3Gui
\* what a Vst3Gui method leaves alone
guiIdle == <<pc, req, resp, args, outbuf, last, sessVars, osVars, sockVars,
             workerVars, histVars, listening, probed, peer, minted, tx>>

\* the native window behind the handle: rack_vst3_gui_show and _hide map
\* and unmap it when they succeed, a close request met by pump_events
\* unmaps it
NativeShow(g, code) == IF code < 0 THEN g ELSE [g EXCEPT !.visible = 1]
NativeHide(g, code) == IF code < 0 THEN g ELSE [g EXCEPT !.visible = 0]
NativePump(g, close) == IF close THEN [g EXCEPT !.visible = 0] ELSE g

\* the titles show() is given: none, a text, a text with a NUL in it
Titles == {"None", "text", "text_with_nul"}

\* the codes the native calls return
NativeCodes == {-1, 0}

\* a faulty wrapper: the code the native call returned is not looked at
GuiResult_IgnoresCode(code) == "Ok"

\* `if result < 0 { return Err(Error::Other(..)) }` ... `Ok(())`
GuiResult(code) == IF code < 0 THEN "Other" ELSE "Ok"

\* what the owner's history becomes when a call returns: the last call
\* that succeeded, and whether the window was closed since
Noted(g, call, res) ==
    IF res = "Ok" THEN [g EXCEPT !.last = call, !.closed = FALSE] ELSE g

\* Vst3Gui::create: a null handle is an error
GuiCreate(handle) ==
    /\ pc = "idle"
    /\ gui.state = "none"
    /\ op' = "gui_create"
    /\ IF handle = "null"
       THEN /\ result' = "Other"
            /\ UNCHANGED gui
       ELSE /\ result' = "Ok"
            /\ gui' = [state |-> "created", visible |-> 0, last |-> "none",
                       closed |-> FALSE]
    /\ UNCHANGED <<guiIdle, retval>>

\* Vst3Gui::show(title): CString::new(t).unwrap() panics on a NUL, before
\* the native call
GuiShow(title, code) ==
    /\ pc = "idle"
    /\ gui.state = "created"
    /\ op' = "gui_show"
    /\ IF title = "text_with_nul"
       THEN /\ result' = "Panic"
            /\ UNCHANGED gui
       ELSE /\ result' = GuiResult(code)
            /\ gui' = Noted(NativeShow(gui, code), "show", GuiResult(code))
    /\ UNCHANGED <<guiIdle, retval>>

\* Vst3Gui::hide
GuiHide(code) ==
    /\ pc = "idle"
    /\ gui.state = "created"
    /\ op' = "gui_hide"
    /\ result' = GuiResult(code)
    /\ gui' = Noted(NativeHide(gui, code), "hide", GuiResult(code))
    /\ UNCHANGED <<guiIdle, retval>>

\* Vst3Gui::pump_events: the number of events handled is returned
GuiPumpEvents(events, close) ==
    /\ pc = "idle"
    /\ gui.state = "created"
    /\ op' = "gui_pump_events"
    /\ retval' = events + (IF close THEN 1 ELSE 0)
    /\ gui' = [NativePump(gui, close) EXCEPT !.closed = @ \/ close]
    /\ UNCHANGED <<guiIdle, result>>

\* Vst3Gui::is_visible
GuiIsVisible(g) == g.visible # 0

\* Drop for Vst3Gui: rack_vst3_gui_free
GuiDrop ==
    /\ pc = "idle"
    /\ gui.state = "created"
    /\ op' = "gui_drop"
    /\ gui' = [gui EXCEPT !.state = "freed"]
    /\ UNCHANGED <<guiIdle, result, retval>>

InitGui == InitIdle /\ args = NoArgs

NextGui ==
    \/ \E handle \in {"null", "window"} : GuiCreate(handle)
    \/ \E title \in Titles, code \in NativeCodes : GuiShow(title, code)
    \/ \E code \in NativeCodes : GuiHide(code)
    \/ \E events \in 0..1, close \in BOOLEAN : GuiPumpEvents(events, close)
    \/ GuiDrop

SpecGui == InitGui /\ [][NextGui]_vars

\* ------------------------------------------- the InitAudio request
\* str::as_bytes of a text held in pieces: the two literals of the format
\* strings, the dash, and decimal digits
PieceBytes(piece) ==
    CASE piece = "Z:" -> <<90, 58>>
      [] piece = "/tmp/rack-wine-audio-" ->
             <<47, 116, 109, 112, 47, 114, 97, 99, 107, 45, 119, 105, 110,
               101, 45, 97, 117, 100, 105, 111, 45>>
      [] piece = "-" -> <<45>>
      [] OTHER -> <<47 + (CHOOSE d \in 1..10 : DigitChars[d] = piece)>>

RECURSIVE AsBytes(_)
AsBytes(text) ==
    IF text = <<>> THEN <<>>
    ELSE PieceBytes(Head(text)) \o AsBytes(Tail(text))

\* a faulty initialize(): the name is sent without the drive prefix
WineShmName_NoDrive(shm_name) == shm_name

\* initialize(): format!("Z:{}", shm_name)
WineShmName(shm_name) == <<"Z:">> \o shm_name

\* the process ids, the counter values and the sample rates (in half-hertz)
\* of the sessions whose request is built
RequestPids == {1, 4242, 2147483647}
RequestCounters == {0, 9, 10, 2147483646}
RequestRates == {-2, 88200, 96001}

\* initialize(sample_rate, max_block_size) up to the bytes of the InitAudio
\* request, the region mapped: the name is drawn, the header stamped, the
\* request encoded
InitializeRequest ==
    /\ pc = "idle"
    /\ "pid" \in DOMAIN args
    /\ LET sr == args.sample_rate
           bs == args.max_block_size
           shm_name == ShmName(args.pid, shm_counter)
           wine_shm_name == WineShmName(shm_name)
       IN  /\ op' = "initialize"
           /\ sample_rate' = sr
           /\ block_size' = bs
           /\ SetupSharedMemory(bs, num_inputs, num_outputs, sr, "ok")
           /\ retval' = shm_name
           /\ req' = CmdInitAudio(sr, bs, num_inputs, num_outputs, shm_counter)
           /\ tx' = CmdInitAudioToBytes(CmdInitAudioNew(F64AsU32(sr), bs,
                        num_inputs, num_outputs, AsBytes(wine_shm_name)))
           /\ pc' = "send"
    /\ UNCHANGED <<resp, args, outbuf, result, last, initialized, num_inputs,
                   num_outputs, param_ids, child, sockVars, workerVars,
                   histVars, listening, probed, peer, minted, gui>>

\* a constructed session that has not been armed, in a process whose
\* counter stands anywhere
InitRequest ==
    /\ pc = "idle" /\ op = "none" /\ req = NoRequest /\ resp = NoResponse
    /\ args \in { [pid |-> pid, sample_rate |-> sr, max_block_size |-> bs] :
                     pid \in RequestPids, sr \in RequestRates,
                     bs \in 1..MaxBlock }
    /\ outbuf = <<>> /\ result = "none" /\ last = NoLast
    /\ initialized = FALSE
    /\ shm_ptr = None /\ shm_path = None /\ shm_size = 0
    /\ sample_rate = 0 /\ block_size = 0
    /\ num_inputs \in 0..2 /\ num_outputs \in ChannelCounts
    /\ param_ids = <<>>
    /\ child = "held"
    /\ shm_counter \in RequestCounters /\ files = {} /\ regions = <<>>
    /\ sock_out = <<>> /\ sock_in = <<>> /\ sock_open = TRUE
    /\ worker = "idle" /\ wregion = None
    /\ ops = 0 /\ unanswered = 0 /\ faulted = FALSE
    /\ quiet0 = TRUE /\ teardown = <<>>
    /\ handshake = <<>>
    /\ listening = {RACK_WINE_PORT_BASE} /\ probed = <<RACK_WINE_PORT_BASE>>
    /\ peer = RACK_WINE_PORT_BASE
    /\ retval = None /\ minted = <<>> /\ gui = NoGui /\ tx = <<>>

NextRequest == InitializeRequest

SpecRequest == InitRequest /\ [][NextRequest]_vars

\* ------------------------------------------------------------ the claims
\* a step in which the owner calls process()
ProcessCalled == pc = "idle" /\ op' = "process" /\ ops' = ops + 1

\* C1: process() on a session that is not armed returns NotInitialized,
\* writes no request, touches neither a region nor the caller's buffers, and
\* leaves every field of the session as it was.
C1_ProcessUnarmed ==
    [][(ProcessCalled /\ ~initialized) =>
          /\ result' = "NotInitialized"
          /\ pc' = "idle"
          /\ UNCHANGED <<sockVars, unanswered, osVars, outbuf, sessVars,
                         workerVars, faulted>>]_vars

\* process() has been refused on an unarmed session that holds a mapping
\* left by an initialize() whose InitAudio exchange failed
C1_Witness ==
    /\ op = "process" /\ pc = "idle" /\ result = "NotInitialized"
    /\ ~initialized /\ shm_ptr # None

\* C2 as claimed: once the session is armed, no step changes its sample
\* rate, block size, channel counts, region pointer, size or path, or the
\* header process() reads.
C2_ArmedPlaneImmutable ==
    [][initialized =>
          /\ UNCHANGED planeVars
          /\ ShmHeaderOf(regions'[shm_ptr'].mem) = ShmHeaderOf(regions[shm_ptr].mem)]_vars

\* C3 as claimed: between calls, a connected session is unarmed without an
\* audio plane, or armed with a mapped region whose header agrees with its
\* fields.
C3_UnarmedOrArmed ==
    (pc = "idle") =>
        \/ ~initialized /\ shm_ptr = None /\ shm_path = None
        \/ /\ initialized /\ shm_ptr # None /\ shm_path # None
           /\ regions[shm_ptr].mapped
           /\ LET h == ShmHeaderOf(regions[shm_ptr].mem)
              IN  /\ h.block_size = block_size
                  /\ h.num_inputs = num_inputs
                  /\ h.num_outputs = num_outputs
                  /\ h.sample_rate = F64AsU32(sample_rate)

\* C4 as claimed: a dropped session ran Shutdown, unmap, unlink, the release
\* of the socket and the reaping of the worker, in this order and each at
\* most once, and the worker has been reaped.
C4_TeardownOrderAndReap ==
    (pc = "dropped") =>
        /\ teardown \in {<<"shutdown", "unmap", "unlink", "close_socket", "reap_child">>,
                         <<"shutdown", "close_socket", "reap_child">>}
        /\ child = "reaped"

\* the steps of drop()
DropStep == SendCommand \/ RecvHeader \/ RecvPayload \/ DropCleanup

\* C5: teardown runs to completion whatever the Shutdown exchange did: a
\* drop under way can always take its next step, and once it is over the
\* region is unmapped, the backing file unlinked and the socket released,
\* every step having run once.
C5_TeardownCompletes ==
    /\ (op = "drop" /\ pc # "dropped") => ENABLED DropStep
    /\ (pc = "dropped") =>
          /\ shm_ptr # None => ~regions[shm_ptr].mapped
          /\ shm_path # None => shm_path \notin files
          /\ ~sock_open
          /\ teardown = <<"shutdown">>
                          \o (IF shm_ptr # None THEN <<"unmap">> ELSE <<>>)
                          \o (IF shm_path # None THEN <<"unlink">> ELSE <<>>)
                          \o <<"release_child", "close_socket">>

\* an armed session has been dropped and its Shutdown exchange had failed
C5_Witness ==
    /\ pc = "dropped" /\ initialized /\ shm_ptr # None
    /\ last.outcome \in {"Transport", "WorkerError"}

\* C6 as claimed: the request headers written less the reply headers
\* consumed is 0 or 1, and no request is written while one is unanswered.
C6_OneExchangeInFlight ==
    /\ unanswered \in {0, 1}
    /\ (pc = "send") => unanswered = 0

\* C7 as claimed: after a request failed in transport, no later operation
\* writes a request (the Shutdown of drop left aside).
C7_FaultEndsSession ==
    [][(faulted /\ op' # "drop") => Len(sock_out') <= Len(sock_out)]_vars

StatusErrors == {"NotInitialized", "InvalidParameter", "WorkerError"}

\* C8: when request() returns a status error it has taken the whole reply
\* off the stream, header and payload_size bytes; if nothing was under way
\* when the request was written, nothing is under way when it returns, so
\* the next reply read starts at a reply header.
C8_StatusErrorKeepsSync ==
    (pc = "idle" /\ last.outcome \in StatusErrors) =>
        /\ last.read = RespHeaderWords + last.payload_size \div 4
        /\ quiet0 => (Quiescent /\ unanswered = 0)

\* a status error whose reply carried a payload has been returned
C8_Witness ==
    /\ pc = "idle" /\ last.outcome \in StatusErrors
    /\ last.payload_size > 0 /\ quiet0

\* C9: the status word decides the outcome: 0 the payload, 2 and 3
\* NotInitialized, 4 InvalidParameter, 1 and everything above 4 the worker
\* error; only 0 hands the payload to the caller.
C9_StatusMapping ==
    (last.outcome \notin {"none", "Transport"}) =>
        /\ last.status = 0 =>
              /\ last.outcome = "Ok"
              /\ Len(last.payload) = last.payload_size \div 4
        /\ last.status \in {2, 3} => last.outcome = "NotInitialized"
        /\ last.status = 4 => last.outcome = "InvalidParameter"
        /\ (last.status = 1 \/ last.status > 4) => last.outcome = "WorkerError"
        /\ last.status # 0 => last.payload = <<>>

\* a reply with a status above 4 and a payload has been mapped
C9_Witness ==
    /\ last.status > 4 /\ last.outcome = "WorkerError"
    /\ last.payload_size > 0

\* C10 as claimed: the host writes the input half and reads the output half
\* only while no ProcessAudio request is unanswered.
C10_NoPlaneAccessInFlight ==
    [][((ProcessCalled /\ pc' = "send") \/ (pc = "copy_out" /\ pc' = "idle"))
          => ~PAInFlight]_vars

\* C11: when process() returns Ok, each output channel c < num_outputs the
\* caller passed has its first min(N, len) samples replaced by the floats at
\* output_offset + c * block_size * 4 of the region; the samples after them,
\* and the channels c >= num_outputs, are as they were.
C11_OutputsOverwritten ==
    [][(pc = "copy_out" /\ pc' = "idle") =>
          LET mem == regions[shm_ptr].mem
              h == ShmHeaderOf(mem)
              N == args.num_frames
              at(c, j) == mem[(h.output_offset + c * h.block_size * 4) \div 4 + j]
          IN  /\ result' = "Ok"
              /\ N <= h.block_size
              /\ Len(outbuf') = Len(outbuf)
              /\ \A c \in 0..(Len(outbuf) - 1) :
                    /\ Len(outbuf'[c + 1]) = Len(outbuf[c + 1])
                    /\ \A j \in 0..(Len(outbuf[c + 1]) - 1) :
                          outbuf'[c + 1][j + 1] =
                              IF c < num_outputs /\ j < Min(N, Len(outbuf[c + 1]))
                              THEN at(c, j)
                              ELSE outbuf[c + 1][j + 1]]_vars

\* process(2) has returned Ok on a session with two outputs to a caller
\* whose first channel is one sample long and whose second is three
C11_Witness ==
    /\ pc = "idle" /\ op = "process" /\ result = "Ok"
    /\ num_outputs = 2
    /\ outbuf = <<<<5>>, <<5, 5, 9>>>>

\* C12: the input loop of process() changes no word of the region but the
\* first min(N, len) samples of the channels c < num_inputs the caller
\* supplied: channels c >= num_inputs write nothing, and the slots of
\* channels not supplied and the samples past min(N, len) keep their values.
C12_InputsFrame ==
    [][(ProcessCalled /\ pc' = "send") =>
          LET mem == regions[shm_ptr].mem
              h == ShmHeaderOf(mem)
              inputs == args'.inputs
              N == args'.num_frames
              base(c) == (h.input_offset + c * h.block_size * 4) \div 4
              supplied(i) ==
                  \E c \in 0..(Len(inputs) - 1) :
                      /\ c < num_inputs
                      /\ base(c) <= i
                      /\ i < base(c) + Min(N, Len(inputs[c + 1]))
          IN  /\ DOMAIN regions' = DOMAIN regions
              /\ \A k \in DOMAIN regions :
                    k # shm_ptr => regions'[k] = regions[k]
              /\ DOMAIN regions'[shm_ptr].mem = DOMAIN mem
              /\ \A i \in DOMAIN mem :
                    ~supplied(i) => regions'[shm_ptr].mem[i] = mem[i]]_vars

\* process(2) has run its input loop on a session with one input for a
\* caller that passed two channels, the first one sample long
C12_Witness ==
    /\ pc = "send" /\ op = "process" /\ req.cmd = "ProcessAudio"
    /\ num_inputs = 1 /\ Len(args.inputs) = 2 /\ args.num_frames = 2
    /\ Len(args.inputs[1]) = 1

\* a step of the host: the worker alone takes requests off the stream
HostStep == Len(sock_out') >= Len(sock_out)

\* C13: of a region that exists, the host changes only words of the input
\* half, [input_offset, output_offset); the output loop of process() reads
\* only words of the output half, [output_offset, region size).
C13_HostWritesInputsOnly ==
    [][/\ HostStep =>
            \A k \in DOMAIN regions :
                LET mem == regions[k].mem
                    h == ShmHeaderOf(mem)
                IN  \A i \in DOMAIN mem :
                        regions'[k].mem[i] # mem[i] =>
                            /\ h.input_offset <= 4 * i
                            /\ 4 * i < h.output_offset
       /\ (pc = "copy_out" /\ pc' = "idle") =>
            LET mem == regions[shm_ptr].mem
                h == ShmHeaderOf(mem)
            IN  \A c \in 0..(Min(Len(outbuf), num_outputs) - 1) :
                  \A j \in 0..(Min(args.num_frames, Len(outbuf[c + 1])) - 1) :
                      LET b == h.output_offset + (c * h.block_size + j) * 4
                      IN  /\ h.output_offset <= b
                          /\ b + 4 <= 4 * Cardinality(DOMAIN mem)
                          /\ outbuf'[c + 1][j + 1] = mem[b \div 4]]_vars

\* process(2) has returned Ok on a session with two inputs and two outputs,
\* the worker having written the output half
C13_Witness ==
    /\ pc = "idle" /\ op = "process" /\ result = "Ok"
    /\ num_inputs = 2 /\ num_outputs = 2 /\ initialized
    /\ LET mem == regions[shm_ptr].mem
       IN  mem[ShmHeaderOf(mem).output_offset \div 4] = 5

Written(cmd) ==
    /\ Len(sock_out') = Len(sock_out) + 1
    /\ sock_out'[Len(sock_out')].cmd = cmd

\* a call of initialize() returns in this step
InitializeReturns ==
    /\ op' = "initialize" /\ pc' = "idle"
    /\ (pc # "idle" \/ ops' = ops + 1)

\* C15 as claimed: when InitAudio is written, the region it names is mapped
\* and its header stamped; a call whose region was not made returns an error
\* and writes nothing; the armed flag becomes true only when the Ok reply to
\* the InitAudio request has been read, every request written before it
\* having been answered.
C15_ArmingOrder ==
    [][/\ Written("InitAudio") =>
            LET k == sock_out'[Len(sock_out')].payload[5]
            IN  /\ k = shm_counter - 1
                /\ k \in DOMAIN regions
                /\ regions[k].mapped
                /\ ShmHeaderOf(regions[k].mem) =
                       ShmHeaderOf(StampedRegion(block_size, num_inputs,
                                                 num_outputs, sample_rate))
       /\ (op' = "initialize" /\ ops' = ops + 1
             /\ shm_counter \notin DOMAIN regions') =>
                /\ pc' = "idle" /\ result' # "Ok" /\ req' = NoRequest
       /\ (~initialized /\ initialized') =>
            /\ op = "initialize" /\ last'.outcome = "Ok"
            /\ unanswered' = 0]_vars

\* C16: is_initialized() is false on a fresh session, true when
\* initialize() has returned Ok, and false when initialize() has returned
\* an error on a session that was not armed.
C16_IsInitialized ==
    /\ [](op = "none" => ~is_initialized)
    /\ [][InitializeReturns =>
            /\ result' = "Ok" => is_initialized'
            /\ (result' # "Ok" /\ ~initialized) => ~is_initialized']_vars

\* initialize() has returned the worker's error on a session that was not
\* armed, its region mapped
C16_Witness ==
    /\ op = "initialize" /\ pc = "idle" /\ result = "WorkerError"
    /\ ~is_initialized /\ shm_ptr # None

\* C17 as claimed: when initialize() returns an error, the file it created
\* is gone, the region it mapped is unmapped, and sample rate, block size,
\* region pointer, size and path and the armed flag are as before the call.
C17_FailedInitializeLeavesNothing ==
    [][(InitializeReturns /\ result' # "Ok") =>
          LET k == shm_counter' - 1
          IN  /\ k \notin files'
              /\ k \in DOMAIN regions' => ~regions'[k].mapped
              /\ shm_ptr' # k /\ shm_path' # k
              /\ ops' = ops + 1 =>
                    UNCHANGED <<sample_rate, block_size, shm_ptr, shm_size,
                                shm_path, initialized>>]_vars

\* C18 as claimed: once the session is dropped, no backing file it created
\* is left.
C18_NoFileLeftAfterDrop ==
    (pc = "dropped") => files = {}

\* C19: new() issues Ping, LoadPlugin with class_index 0, GetInfo, then
\* GetParamInfo(0), GetParamInfo(1), ... up to num_params - 1, in this
\* order; an outcome of Ping, LoadPlugin or GetInfo that is not Ok is the
\* last command issued and construction has failed; a session that was
\* constructed issued all of them.
C19_HandshakeOrder ==
    /\ \A j \in 1..Len(handshake) :
          LET c == handshake[j]
          IN  /\ j = 1 => c.cmd = "Ping"
              /\ j = 2 => c.cmd = "LoadPlugin" /\ c.arg = 0
              /\ j = 3 => c.cmd = "GetInfo"
              /\ j > 3 =>
                    /\ c.cmd = "GetParamInfo" /\ c.arg = j - 4
                    /\ c.arg < handshake[3].reply
              /\ (j <= 3 /\ c.out # "Ok") =>
                    j = Len(handshake) /\ pc = "new_failed"
    /\ (pc = "idle") =>
          /\ Len(handshake) >= 3
          /\ Len(handshake) = 3 + handshake[3].reply

\* a session has been constructed whose worker reported two parameters and
\* failed to describe the first
C19_Witness ==
    /\ pc = "idle" /\ result = "Ok" /\ Len(handshake) = 5
    /\ handshake[4].out # "Ok" /\ handshake[5].out = "Ok"

\* C20 as claimed: when construction fails after the worker was spawned, the
\* socket is closed if it was opened, then the worker is destroyed: no
\* worker is left running.
C20_FailedNewDestroysWorker ==
    (pc = "new_failed" /\ child # "none") =>
        /\ ~sock_open
        /\ child = "killed"
        /\ worker # "idle"

\* the ports of the range
PortRange == RACK_WINE_PORT_BASE..RACK_WINE_PORT_MAX

\* C21: the ports probed are 47100, 47101, ... in this order and none
\* beyond 47199; no port is probed after one that accepted; the session is
\* connected to the lowest port of the range that accepts; when none of the
\* 100 ports accepts, construction fails with the connection error, all of
\* them having been probed.
C21_PortDiscovery ==
    /\ \A j \in 1..Len(probed) :
          /\ probed[j] = RACK_WINE_PORT_BASE + j - 1
          /\ probed[j] <= RACK_WINE_PORT_MAX
          /\ j < Len(probed) => probed[j] \notin listening
    /\ peer # None =>
          /\ peer \in listening \cap PortRange
          /\ \A q \in listening \cap PortRange : peer <= q
          /\ probed[Len(probed)] = peer
    /\ (pc = "new_ping") => (peer # None /\ sock_open)
    /\ (pc = "new_failed") =>
          /\ listening \cap PortRange = {}
          /\ Len(probed) = 100
          /\ result = "Transport" /\ peer = None /\ ~sock_open

\* the session is connected to the last port of the range, the worker
\* listening also on the ports next to the range's ends
C21_Witness ==
    /\ pc = "new_ping" /\ peer = RACK_WINE_PORT_MAX
    /\ RACK_WINE_PORT_MAX + 1 \in listening
    /\ RACK_WINE_PORT_BASE - 1 \in listening

\* C22 as claimed: a constructed session's parameter id table is as long as
\* the num_params of the GetInfo reply.
C22_IdTableLength ==
    (pc = "idle" /\ result = "Ok" /\ Len(handshake) >= 3) =>
        Len(param_ids) = handshake[3].reply

\* a step in which the owner calls set_parameter(), get_parameter(), or one
\* of the calls on presets and state
SetParameterCalled == pc = "idle" /\ op' = "set_parameter" /\ ops' = ops + 1
GetParameterCalled == pc = "idle" /\ op' = "get_parameter" /\ ops' = ops + 1
PresetOrStateCalled ==
    /\ pc = "idle" /\ ops' = ops + 1
    /\ op' \in {"preset_count", "preset_info", "load_preset", "get_state",
                "set_state"}

\* the eight little-endian bytes of the f64 equal to an f32, for the values
\* 0.0, 0.5, 1.0, 1.0 + 2^-23 and 2^-149
ExpectedF64Bytes(bits) ==
    CASE bits = 0 -> <<0, 0, 0, 0, 0, 0, 0, 0>>
      [] bits = 1056964608 -> <<0, 0, 0, 0, 0, 0, 224, 63>>
      [] bits = 1065353216 -> <<0, 0, 0, 0, 0, 0, 240, 63>>
      [] bits = 1065353217 -> <<0, 0, 0, 32, 0, 0, 240, 63>>
      [] bits = 1 -> <<0, 0, 0, 0, 0, 0, 160, 54>>

\* C23: set_parameter(index, value) with index >= the table's length
\* returns InvalidParameter carrying the index, writes nothing and changes
\* nothing of the session; with index in range it makes the request
\* SetParam whose 12-byte payload is the id stored at the index and the
\* value as an f64, and that request is written once.
C23_SetParameter ==
    [][/\ (SetParameterCalled /\ pc' = "idle") =>
            /\ result' = "InvalidParameter"
            /\ retval' >= Len(param_ids)
            /\ UNCHANGED <<sockVars, unanswered, sessVars, osVars,
                           workerVars>>
       /\ (SetParameterCalled /\ pc' = "send") =>
            /\ args'.index < Len(param_ids)
            /\ req'.cmd = "SetParam"
            /\ Len(req'.payload) = 12
            /\ U32FromLeBytes(SubSeq(req'.payload, 1, 4)) =
                   param_ids[args'.index + 1]
            /\ SubSeq(req'.payload, 5, 12) = ExpectedF64Bytes(args'.value)
            /\ UNCHANGED <<sockVars, sessVars>>
       /\ Written("SetParam") =>
            /\ op = "set_parameter" /\ pc = "send" /\ pc' = "recv_hdr"
            /\ sock_out'[Len(sock_out')] = req]_vars

\* the request of set_parameter(1, 1.0 + 2^-23) has been written
C23_Witness ==
    /\ op = "set_parameter" /\ pc = "recv_hdr"
    /\ args.index = 1 /\ args.value = 1065353217
    /\ param_ids = <<100, 101>>

\* C24 as claimed: get_parameter(index) with index in range makes a
\* GetParam request; with index out of range it returns InvalidParameter
\* without one.
C24_GetParameter ==
    [][GetParameterCalled =>
          \/ /\ result' = "InvalidParameter"
             /\ retval' >= Len(param_ids)
             /\ pc' = "idle"
             /\ UNCHANGED sockVars
          \/ /\ pc' = "send"
             /\ req'.cmd = "GetParam"]_vars

\* C25 as claimed: preset_count, preset_info, load_preset, get_state and
\* set_state return the not-implemented error, write nothing and change
\* nothing of the session.
C25_NotImplemented ==
    [][PresetOrStateCalled =>
          /\ result' = "Other"
          /\ pc' = "idle"
          /\ UNCHANGED <<sockVars, unanswered, sessVars, osVars>>]_vars

\* C26: the names drawn in one process are pairwise different and the
\* counter values handed out increase strictly in the order of the
\* increments, whichever threads drew them.
C26_NamesUnique ==
    \A i, j \in DOMAIN minted :
        i < j => /\ minted[i].counter < minted[j].counter
                 /\ minted[i].path # minted[j].path

\* two threads have drawn eleven names between them, alternating
C26_Witness ==
    /\ Len(minted) = 11
    /\ \A i \in 1..10 : minted[i].thread # minted[i + 1].thread
    /\ minted[11].path = <<"/tmp/rack-wine-audio-", "4", "2", "4", "2", "-",
                           "1", "0">>

\* what send_command wrote after the 16 bytes of the header, the count at
\* its head, and its i-th record of eight bytes
TxPayload == SubSeq(tx, 17, Len(tx))
TxCount == U32FromLeBytes(SubSeq(TxPayload, 1, 4))
TxRecord(i) == SubSeq(TxPayload, 8 * i - 3, 8 * i + 4)

ChannelKinds ==
    {"NoteOn", "NoteOff", "ControlChange", "ProgramChange", "PitchBend",
     "PolyphonicAftertouch", "ChannelAftertouch"}

\* the table of the raw encoding: the kind's nibble, and the two data bytes
KindNibble(kind) ==
    CASE kind = "NoteOn" -> 9
      [] kind = "NoteOff" -> 8
      [] kind = "ControlChange" -> 11
      [] kind = "ProgramChange" -> 12
      [] kind = "PitchBend" -> 14
      [] kind = "PolyphonicAftertouch" -> 10
      [] kind = "ChannelAftertouch" -> 13

ExpectedData(e) ==
    CASE e.kind = "NoteOn" -> <<e.note, e.velocity>>
      [] e.kind = "NoteOff" -> <<e.note, e.velocity>>
      [] e.kind = "ControlChange" -> <<e.controller, e.value>>
      [] e.kind = "ProgramChange" -> <<e.program, 0>>
      [] e.kind = "PitchBend" -> <<e.value % 128, (e.value \div 128) % 128>>
      [] e.kind = "PolyphonicAftertouch" -> <<e.note, e.pressure>>
      [] e.kind = "ChannelAftertouch" -> <<e.pressure, 0>>

\* C27: the record send_midi writes for an event with a channel is the
\* sample offset as a little-endian 32-bit word, the status byte
\* (nibble * 16) + (channel mod 16), the two data bytes of the kind's row,
\* and a zero byte.
C27_MidiMapping ==
    op = "send_midi" =>
        \A i \in 1..Len(args.events) :
            LET e == args.events[i]
                r == TxRecord(i)
            IN  e.kind \in ChannelKinds =>
                  /\ Len(r) = 8
                  /\ \A k \in 1..8 : r[k] \in 0..255
                  /\ r[1] + 256 * r[2] + 65536 * r[3] + 16777216 * r[4]
                        = e.sample_offset
                  /\ r[5] = 16 * KindNibble(e.kind) + (e.channel % 16)
                  /\ <<r[6], r[7]>> = ExpectedData(e)
                  /\ r[8] = 0

\* NoteOn 60/100 on channel 0 at offset 128 and pitch bend 8192 on channel 3
\* have been sent in one call
C27_Witness ==
    /\ op = "send_midi"
    /\ Len(args.events) = 2
    /\ args.events[1].kind = "NoteOn"
    /\ args.events[2].kind = "PitchBend" /\ args.events[2].value = 8192
    /\ TxRecord(1) = <<128, 0, 0, 0, 144, 60, 100, 0>>
    /\ TxRecord(2) = <<2, 0, 0, 0, 227, 0, 64, 0>>

\* the events of a list that are not system real-time events
RECURSIVE ChannelEvents(_)
ChannelEvents(events) ==
    IF events = <<>> THEN <<>>
    ELSE IF Head(events).kind \in ChannelKinds
         THEN <<Head(events)>> \o ChannelEvents(Tail(events))
         ELSE ChannelEvents(Tail(events))

\* C28 as claimed: the count in the SendMidi payload is the number of events
\* that are not system real-time events, and the payload holds a record for
\* each of those and for no other.
C28_RealTimeDropped ==
    op = "send_midi" =>
        /\ TxCount = Len(ChannelEvents(args.events))
        /\ Len(TxPayload) = 4 + 8 * Len(ChannelEvents(args.events))

\* C29: a send_midi call writes one SendMidi request: a header whose
\* payload_size is the payload's length, then a payload that is a
\* little-endian count followed by that many 8-byte records, the i-th record
\* being that of the i-th event given.
C29_MidiPayload ==
    op = "send_midi" =>
        /\ Len(tx) = 16 + 4 + 8 * TxCount
        /\ \A k \in 1..Len(tx) : tx[k] \in 0..255
        /\ SubSeq(tx, 9, 12) = <<11, 0, 0, 0>>
        /\ tx[13] + 256 * tx[14] + 65536 * tx[15] + 16777216 * tx[16]
              = Len(TxPayload)
        /\ TxPayload[1] + 256 * TxPayload[2] + 65536 * TxPayload[3]
              + 16777216 * TxPayload[4] = TxCount
        /\ TxCount <= Len(args.events)
        /\ \A i \in 1..TxCount :
              /\ U32FromLeBytes(SubSeq(TxRecord(i), 1, 4))
                    = args.events[i].sample_offset
              /\ args.events[i].kind \in ChannelKinds =>
                    TxRecord(i)[5] \div 16 = KindNibble(args.events[i].kind)

\* a call with two events has written 36 bytes and the worker answered Ok
C29_Witness ==
    /\ op = "send_midi" /\ result = "Ok"
    /\ Len(args.events) = 2
    /\ args.events[1].kind = "ControlChange"
    /\ args.events[2].kind = "NoteOff"
    /\ Len(tx) = 36
    /\ SubSeq(tx, 13, 20) = <<20, 0, 0, 0, 2, 0, 0, 0>>

\* C30: decoding the 16 bytes of Header::new(command, payload_size) gives
\* magic 0x484E5752, version 1, the command's code and the payload_size, and
\* the bytes are those four words in that order, least significant byte first.
C30_HeaderRoundTrip ==
    op = "header" =>
        /\ retval = [magic |-> 1213093714, version |-> 1,
                     command |-> HostCommandAsU32(args.command),
                     payload_size |-> args.payload_size]
        /\ Len(tx) = 16
        /\ \A k \in 1..16 : tx[k] \in 0..255
        /\ SubSeq(tx, 1, 8) = <<82, 87, 78, 72, 1, 0, 0, 0>>
        /\ tx[9] + 256 * tx[10] + 65536 * tx[11] + 16777216 * tx[12]
              = HostCommandAsU32(args.command)
        /\ tx[13] + 256 * tx[14] + 65536 * tx[15] + 16777216 * tx[16]
              = args.payload_size

\* the header of LoadPlugin with a payload of 1028 bytes has been encoded
\* and decoded
C30_Witness ==
    /\ op = "header"
    /\ args = [command |-> "LoadPlugin", payload_size |-> 1028]
    /\ tx = <<82, 87, 78, 72, 1, 0, 0, 0, 2, 0, 0, 0, 4, 4, 0, 0>>
    /\ retval.command = 2 /\ retval.payload_size = 1028

\* C31: CmdLoadPlugin::new(path, k) encodes to 1028 bytes: the first
\* min(len(path), 1023) bytes of path, NULs up to offset 1024 (so the byte
\* at offset 1023 is NUL), then k little-endian; the 64-byte identifier of
\* CmdInitAudio holds the first min(len, 63) bytes of the name, then NULs.
C31_FixedStrings ==
    /\ op = "CmdLoadPlugin" =>
          /\ Len(tx) = 1028
          /\ \A i \in 1..1024 :
                tx[i] = IF i <= Len(args.path) /\ i <= 1023
                        THEN args.path[i] ELSE 0
          /\ tx[1024] = 0
          /\ tx[1025] + 256 * tx[1026] + 65536 * tx[1027]
                + 16777216 * tx[1028] = args.class_index
          /\ \A i \in 1025..1028 : tx[i] \in 0..255
    /\ op = "CmdInitAudio" =>
          /\ Len(tx) = 80
          /\ \A i \in 1..64 :
                tx[16 + i] = IF i <= Len(args.shm_name) /\ i <= 63
                             THEN args.shm_name[i] ELSE 0
          /\ tx[80] = 0

\* a path of 1024 bytes has been encoded: its last byte is cut off
C31_Witness ==
    /\ op = "CmdLoadPlugin"
    /\ Len(args.path) = 1024
    /\ args.class_index = 258
    /\ tx[1023] = args.path[1023] /\ tx[1023] # 0
    /\ args.path[1024] # 0 /\ tx[1024] = 0
    /\ SubSeq(tx, 1025, 1028) = <<2, 1, 0, 0>>

\* the decoder that ran, and its minimum size
DecoderRan == op \in {"RespPluginInfo", "RespParamInfo", "RespEditorInfo"}
MinimumSize ==
    CASE op = "RespPluginInfo" -> 716
      [] op = "RespParamInfo" -> 196
      [] op = "RespEditorInfo" -> 12

\* C32: a payload decoder returns absent exactly when its input is shorter
\* than its minimum size (716, 196, 12 bytes), otherwise a value, reading
\* no byte past the end of the input; the plug-in-info decoder gives flags
\* 0 for 716 to 719 bytes and reads them from bytes 716..720 for 720 or more.
C32_Decoders ==
    DecoderRan =>
        /\ (retval.kind = "None") <=> (Len(args.buf) < MinimumSize)
        /\ retval.kind \in {"None", "Some"}
        /\ retval.read <= Len(args.buf)
        /\ (op = "RespPluginInfo" /\ Len(args.buf) \in 716..719) =>
              retval.value.flags = 0
        /\ (op = "RespPluginInfo" /\ Len(args.buf) >= 720) =>
              retval.value.flags =
                  args.buf[717] + 256 * args.buf[718]
                      + 65536 * args.buf[719] + 16777216 * args.buf[720]

\* the plug-in-info decoder has taken 719 bytes, the last three of them not
\* NUL, and given flags 0
C32_Witness ==
    /\ op = "RespPluginInfo"
    /\ Len(args.buf) = 719
    /\ args.buf[717] # 0
    /\ retval.kind = "Some"
    /\ retval.value.flags = 0
    /\ Len(retval.value.name) = 127

\* the payload of the reply, its length, and the count at its head
ChangesPayload == args.payload
ChangesFit == (Len(ChangesPayload) - 4) \div 12
ChangesCount ==
    ChangesPayload[1] + 256 * ChangesPayload[2] + 65536 * ChangesPayload[3]
        + 16777216 * ChangesPayload[4]

\* C33: get_param_changes makes one GetParamChanges request and, on Ok,
\* returns the first min(n, floor((len - 4) / 12)) records of the payload in
\* wire order, n being the count at its head; none when the payload is
\* shorter than 4 bytes; it reads nothing past the end of the payload.
C33_ParamChanges ==
    op = "get_param_changes" =>
        /\ req = [cmd |-> "GetParamChanges", payload |-> <<>>]
        /\ result = "Ok" =>
              /\ retval.kind = "Ok"
              /\ retval.read <= Len(ChangesPayload)
              /\ Len(ChangesPayload) < 4 => retval.changes = <<>>
              /\ Len(ChangesPayload) >= 4 =>
                    /\ Len(retval.changes) = Min(ChangesCount, ChangesFit)
                    /\ \A i \in 1..Len(retval.changes) :
                          LET at == 4 + 12 * (i - 1)
                              b == ChangesPayload
                              c == retval.changes[i]
                          IN  /\ c.param_id =
                                    b[at + 1] + 256 * b[at + 2]
                                        + 65536 * b[at + 3]
                                        + 16777216 * b[at + 4]
                              /\ c.value.frac[1] = b[at + 5]
                              /\ c.value.frac[6] = b[at + 10]
                              /\ c.value.exp =
                                    (b[at + 12] % 128) * 16
                                        + (b[at + 11] \div 16)

\* a reply that announces 3 records and holds two whole ones and 11 bytes
\* of a third has been decoded
C33_Witness ==
    /\ op = "get_param_changes" /\ result = "Ok"
    /\ Len(ChangesPayload) = 4 + 35
    /\ ChangesCount = 3
    /\ Len(retval.changes) = 2
    /\ retval.changes[1].param_id # retval.changes[2].param_id
    /\ retval.read = 28

\* the directories strictly between a node and the root
RECURSIVE Between(_)
Between(n) ==
    IF Parent[n] = 0 THEN {} ELSE {Parent[n]} \cup Between(Parent[n])

\* node n is there (nothing above it is a regular file); it is a directory
\* with extension vst3 that no directory above it has; the root and all
\* above it can be listed; the scan reported it
NodeExists(n) == \A a \in Between(n) : args.tree[a] # "file"
Outermost(n) ==
    /\ NodeExists(n)
    /\ args.tree[n] = "container"
    /\ \A a \in Between(n) : args.tree[a] # "container"
CanReach(n) ==
    /\ args.root_listable
    /\ \A a \in Between(n) : args.tree[a] # "locked"
Reported(n) ==
    \E i \in 1..Len(retval.plugins) : retval.plugins[i].path = PathOf(args, n)
PlainDirectory(n) ==
    /\ NodeExists(n)
    /\ args.tree[n] \notin {"file", "container"}
    /\ \A a \in Between(n) : args.tree[a] # "container"

\* C34 as claimed: scan_path reports a directory if and only if its
\* extension is vst3 and no directory between it and the root has that
\* extension; no container's contents are listed, and every subdirectory
\* that is not a container is visited.
C34_OutermostContainers ==
    op = "scan_path" =>
        /\ \A n \in Nodes : Reported(n) <=> Outermost(n)
        /\ \A d \in retval.visited : d = 0 \/ PlainDirectory(d)
        /\ \A n \in Nodes : PlainDirectory(n) => n \in retval.visited

\* C34 (amended): scan_path reports a directory if and only if its
\* extension is vst3, no directory between it and the root has that
\* extension, and the root and every directory above it can be listed; each
\* is reported once; no container's contents are listed, no regular file is
\* reported, and every subdirectory that is not a container and can be
\* reached is visited.
C34_ReachableContainers ==
    op = "scan_path" =>
        /\ \A n \in Nodes : Reported(n) <=> (Outermost(n) /\ CanReach(n))
        /\ Len(retval.plugins) =
              Cardinality({n \in Nodes : Outermost(n) /\ CanReach(n)})
        /\ \A n \in Nodes : args.tree[n] = "file" => ~Reported(n)
        /\ \A d \in retval.visited : d = 0 \/ PlainDirectory(d)
        /\ \A n \in Nodes :
              (PlainDirectory(n) /\ CanReach(n)) => n \in retval.visited

\* a container inside a directory named .1vst3 was reported, the container
\* inside it was not, nor the file f2.vst3, and n4.VST3 was searched
C34_Witness ==
    /\ op = "scan_path"
    /\ args.root_listable
    /\ args.tree = <<"hidden", "file", "container", "upper", "container">>
    /\ Len(retval.plugins) = 1
    /\ retval.plugins[1].path =
          << <<".", "1", "v", "s", "t", "3">>,
             <<"n", "3", ".", "v", "s", "t", "3">> >>
    /\ retval.plugins[1].name = <<"n", "3">>
    /\ retval.visited = {0, 1, 4}

\* C35: scan_path and scan return Ok; a directory that cannot be listed
\* puts nothing in the results and does not stop the walk: every outermost
\* container under directories that can be listed is reported.
C35_UnreadableSkipped ==
    op \in {"scan_path", "scan"} =>
        /\ retval.kind = "Ok"
        /\ (op = "scan_path" \/ args.exists) =>
              /\ \A n \in Nodes :
                    (Outermost(n) /\ CanReach(n)) => Reported(n)
              /\ \A n \in Nodes :
                    Reported(n) =>
                        \A a \in Between(n) : a \in retval.listed
        /\ (op = "scan" /\ ~args.exists) => retval.plugins = <<>>

\* n1 could not be listed: the container in it is missing from the results,
\* the container n2.vst3 read after it is there
C35_Witness ==
    /\ op = "scan_path"
    /\ args.root_listable
    /\ args.tree[1] = "locked" /\ args.tree[3] = "container"
    /\ args.tree[2] = "container"
    /\ 1 \in retval.visited /\ 1 \notin retval.listed
    /\ retval.kind = "Ok"
    /\ Len(retval.plugins) = 1
    /\ retval.plugins[1].name = <<"n", "2">>

\* C36: a Vst3Gui is not visible after create(); while its window has not
\* been closed since, is_visible() is true exactly when the last successful
\* call of show() and hide() was show(); a pump_events() that closes nothing
\* leaves the visibility as it was.
C36_Visibility ==
    /\ [](gui.state = "created" =>
            /\ gui.last = "none" => ~GuiIsVisible(gui)
            /\ ~gui.closed => (GuiIsVisible(gui) <=> gui.last = "show"))
    /\ [][(gui.state = "created" /\ op' = "gui_pump_events") =>
              \/ GuiIsVisible(gui') <=> GuiIsVisible(gui)
              \/ gui'.closed /\ ~GuiIsVisible(gui')]_vars

\* one event was pumped after a successful show(), nothing was closed, and
\* the window is still visible
C36_Witness ==
    /\ gui.state = "created"
    /\ gui.last = "show" /\ ~gui.closed
    /\ op = "gui_pump_events" /\ retval = 1
    /\ GuiIsVisible(gui)

\* C37 as claimed: in a constructed session the id at position i of the
\* table is the id the worker gave for GetParamInfo(i) (100 + i here),
\* whatever exchanges failed during construction.
C37_IdTableAligned ==
    (pc = "idle" /\ result = "Ok") =>
        \A i \in 0..(Len(param_ids) - 1) : param_ids[i + 1] = 100 + i


\* C38 as claimed: whenever process() may run, the region the session
\* copies samples into and out of is the region named in the latest
\* InitAudio request the worker answered with Ok.
C38_ProcessUsesAcknowledgedRegion ==
    (pc = "idle" /\ ProcessMayRun) => shm_ptr = wregion


\* the request initialize() has just built, and the header it has stamped
RequestBuilt == op = "initialize" /\ pc = "send" /\ Len(tx) = 80
StampedHeader == ShmHeaderOf(regions[shm_ptr].mem)

\* C39: the InitAudio request initialize() sends carries the sample rate,
\* block size and channel counts of the header of the region just created,
\* and its 64-byte identifier decodes to "Z:" followed by the whole path of
\* the backing file.
C39_RequestAgreesWithHeader ==
    RequestBuilt =>
        /\ U32FromLeBytes(SubSeq(tx, 1, 4)) = StampedHeader.sample_rate
        /\ U32FromLeBytes(SubSeq(tx, 5, 8)) = StampedHeader.block_size
        /\ U32FromLeBytes(SubSeq(tx, 9, 12)) = StampedHeader.num_inputs
        /\ U32FromLeBytes(SubSeq(tx, 13, 16)) = StampedHeader.num_outputs
        /\ ReadString(SubSeq(tx, 17, 80), 64) = <<90, 58>> \o AsBytes(retval)
        /\ shm_path \in files

\* a request has been built for the longest name there is (ten digits
\* twice, 44 bytes) and a fractional sample rate
C39_Witness ==
    /\ RequestBuilt
    /\ args.pid = 2147483647
    /\ shm_path = 2147483646
    /\ Len(ReadString(SubSeq(tx, 17, 80), 64)) = 44
    /\ args.sample_rate = 96001
    /\ StampedHeader.sample_rate = 48000


\* process() is inside its ProcessAudio exchange; the step in which the
\* exchange fails and process() returns
ProcessExchange == op = "process" /\ pc \in {"send", "recv_hdr", "recv_payload"}
ProcessFails == ProcessExchange /\ pc' = "idle"

\* the first copy_len samples of every input channel the session has are in
\* the input half of region `mem`
InputsWritten(mem, inputs, n, ni) ==
    LET h == ShmHeaderOf(mem)
    IN  \A ch \in 0..(Len(inputs) - 1) :
            ch < ni =>
                \A j \in 0..(Min(n, Len(inputs[ch + 1])) - 1) :
                    mem[(h.input_offset + ch * h.block_size * F32Size) \div 4 + j]
                        = inputs[ch + 1][j + 1]

\* C40: when the ProcessAudio exchange of process() fails, by status or in
\* transport, process() returns that error; from the call to the return no
\* caller output buffer changes, the inputs of the block are in the input
\* half of the region, and the session is still armed with the same region
\* and the same header.
C40_FailedProcessKeepsSession ==
    /\ [][(ProcessCalled \/ ProcessExchange) =>
             /\ outbuf' = outbuf
             /\ UNCHANGED <<initialized, shm_ptr, shm_size, shm_path>>]_vars
    /\ [][ProcessExchange =>
             /\ initialized /\ shm_ptr # None
             /\ ShmHeaderOf(regions'[shm_ptr].mem)
                    = ShmHeaderOf(regions[shm_ptr].mem)]_vars
    /\ [][ProcessFails =>
             /\ result' # "Ok"
             /\ result' = last'.outcome
             /\ InputsWritten(regions'[shm_ptr].mem, args.inputs,
                              args.num_frames, num_inputs)]_vars

\* process() has returned the worker's error on an armed session of two
\* input channels: the block's samples are in the region, the caller's
\* buffers are as they were passed
C40_Witness ==
    /\ op = "process" /\ pc = "idle"
    /\ result = "WorkerError"
    /\ initialized /\ shm_ptr # None
    /\ num_inputs = 2
    /\ outbuf = <<<<9>>, <<9, 9, 9>>>>
    /\ LET mem == regions[shm_ptr].mem
           h == ShmHeaderOf(mem)
       IN  /\ h.block_size = MaxBlock
           /\ mem[h.input_offset \div 4] = 1
           /\ mem[(h.input_offset + h.block_size * F32Size) \div 4] = 3

====
